---- MODULE Spec2Model ----
(***************************************************************************)
(* Join orchestration and cache-first write pipeline of the intention      *)
(* search application (database.js).                                       *)
(*                                                                         *)
(* Spec      : openIntentionsDatabase / dialDirectPeers, against an        *)
(*             environment (orbitdb.open, libp2p.dial, timers) whose       *)
(*             operations may resolve, reject or stay pending.             *)
(* WriteSpec : createIntention / loadIntentions on an open session, with   *)
(*             the IndexedDB cache and the store's put/all as environment. *)
(* LimitSpec : the same pipeline, called with a title or a description     *)
(*             past the limits of the create form.                         *)
(* UpdateSpec: updateIntention / completeIntention / archiveIntention on a *)
(*             store that holds documents, with get/put and the embedding  *)
(*             model as environment.                                       *)
(* SearchSpec: searchIntentions over a list of intentions, the query's     *)
(*             embedding as environment.                                   *)
(* LogSpec   : handleMakeActive and the attention-switch log, the WebAuthn *)
(*             signature as environment.                                   *)
(* PairSpec  : the creation of the global store by separate identities.    *)
(* FairSpec  : Spec with the timers and the call's continuations fair.     *)
(* RaceSpec  : the join, or the write pipeline of an open session; the     *)
(*             deadline races of both.                                     *)
(* CacheSpec : saveIntentionsToCache / loadIntentionsFromCache request by  *)
(*             request, with IndexedDB's transactions as environment.      *)
(* ModelSpec : initializeSearchModel / generateEmbedding and the module's  *)
(*             embeddingModel and modelLoading.                            *)
(***************************************************************************)
EXTENDS Integers, Sequences, FiniteSets, TLC

\* ------------------------------------------------------------------ bounds
MaxRuns == 2
MaxAddr == 2
MaxHints == 2
MaxCreates == 2
MaxLoads == 1
MaxOld == 1
MaxTitleLen == 2
MaxUpdates == 1
MaxNow == 2
MaxDocs == 2
MaxItems == 3
MaxSessions == 2
MaxSwitches == 2
MaxSigned == 52
MaxSaves == 2
MaxReads == 2
MaxCached == 2
MaxEmbeds == 3

Runs == 1..MaxRuns
Addrs == 1..MaxAddr
Hints == 1..MaxHints
Creators == 1..MaxCreates
Loaders == 1..MaxLoads
Updaters == 1..MaxUpdates
Ids == 1..MaxDocs
Sessions == 1..MaxSessions
Switchers == 1..MaxSwitches
Savers == 1..MaxSaves
Readers == 1..MaxReads
Embedders == 1..MaxEmbeds

\* ------------------------------------------------------- program constants
NoAddr == 0
ShortOpenDeadline == 30000
LongOpenDeadline == 90000
StoredOpenDeadline == 30000
NewOpenDeadline == 15000
WriteDeadline == 15000
ReadDeadline == 30000
TitleLimit == 200
DescriptionLimit == 2000
DefaultMaxResults == 50
MaxDistance == 100
LogLimit == 50

VARIABLES
  urlDb,          \* 'db' parameter of window.location.search (NoAddr: absent)
  urlPeers,       \* 'peers' parameter: set of peer multiaddrs ({}: absent)
  storedAddr,     \* localStorage['syncengine-database-address'] (NoAddr: absent)
  run,            \* the calls of openIntentionsDatabase and their locals
  dial,           \* libp2p.dial promises of each call, per multiaddr
  opens,          \* orbitdb.open calls, in call order
  cache,          \* IndexedDB 'syncengine-cache' / 'intentions', keyed by intentionId
  store,          \* the documents of the opened OrbitDB database, keyed by _id
  creates,        \* the calls of createIntention and their locals
  loads,          \* the calls of loadIntentions and their locals
  calls,          \* the calls of updateIntention and their locals
  now,            \* Date.now()
  search,         \* the call of searchIntentions and its locals
  switches,       \* the calls of handleMakeActive and their locals
  signed,         \* the number of signatures webauthnProvider.sign has given
  eventLog,       \* localStorage['attention-switch-log'], parsed
  sessions,       \* independent browser sessions that create a store
  txs,            \* IndexedDB transactions on the cache's object store, as created
  saves,          \* the calls of saveIntentionsToCache and their locals
  reads,          \* the calls of loadIntentionsFromCache and their locals
  embeddingModel, \* the module's embeddingModel (NoModel: null)
  modelLoading,   \* the module's modelLoading (NoModel: null)
  pipelines,      \* the promises pipeline(...) has returned, in call order
  embeds          \* the calls of initializeSearchModel / generateEmbedding

joinVars == <<urlDb, urlPeers, storedAddr, run, dial, opens>>
writeVars == <<cache, store, creates, loads>>
updateVars == <<store, calls, now>>
searchVars == <<search>>
logVars == <<switches, signed, eventLog>>
pairVars == <<sessions>>
idbVars == <<txs, saves, reads>>
modelVars == <<embeddingModel, modelLoading, pipelines, embeds>>
offJoin == <<cache, store, creates, loads, calls, now, searchVars, logVars, pairVars,
             idbVars, modelVars>>
offWrite == <<urlDb, urlPeers, storedAddr, run, dial, opens, calls, now,
              searchVars, logVars, pairVars, idbVars, modelVars>>
offUpdate == <<urlDb, urlPeers, storedAddr, run, dial, opens, cache, creates, loads,
               searchVars, logVars, pairVars, idbVars, modelVars>>
offSearch == <<joinVars, writeVars, calls, now, logVars, pairVars, idbVars, modelVars>>
offLog == <<joinVars, writeVars, calls, now, searchVars, pairVars, idbVars, modelVars>>
offPair == <<joinVars, writeVars, calls, now, searchVars, logVars, idbVars, modelVars>>
offIdb == <<joinVars, store, creates, loads, calls, now, searchVars, logVars,
            pairVars, modelVars>>
offModel == <<joinVars, writeVars, calls, now, searchVars, logVars, pairVars,
              idbVars>>
vars == <<urlDb, urlPeers, storedAddr, run, dial, opens, cache, store, creates, loads,
          calls, now, search, switches, signed, eventLog, sessions, txs, saves, reads,
          embeddingModel, modelLoading, pipelines, embeds>>

\* ----------------------------------------------------------------- helpers
IdleRun ==
  [pc |-> "idle", urlAddress |-> NoAddr, peerMultiaddrs |-> {},
   storedAddress |-> NoAddr, libp2p |-> FALSE, directPeerConnected |-> FALSE,
   op |-> 0, isNewDatabase |-> FALSE, isJoinedViaInvitation |-> FALSE,
   error |-> "none"]

\* orbitdb.open(address, options) raced against a deadline of `timeout` ms.
OpenCall(r, kind, address, timeout) ==
  [run |-> r, kind |-> kind, address |-> address, timeout |-> timeout,
   pause |-> FALSE, status |-> "pending", abandoned |-> FALSE,
   returned |-> FALSE, isNewDatabase |-> FALSE, isJoinedViaInvitation |-> FALSE]

Awaiting(r) == run[r].pc \in {"invOpen", "storedOpen", "newOpen"}

Active(r) == run[r].pc \notin {"idle", "returned", "threw"}

\* clearDatabaseFromURL: replaceState(origin + pathname) drops the whole query
ClearedUrlDb == NoAddr

ClearedUrlPeers == IF urlDb # NoAddr THEN {} ELSE urlPeers

\* localStorage.getItem / URLSearchParams.get at the top of the call
ReadContext(lp) ==
  [IdleRun EXCEPT !.urlAddress = urlDb, !.peerMultiaddrs = urlPeers,
                  !.storedAddress = storedAddr, !.libp2p = lp]

\* ------------------------------------------------------------------- Init
JoinInit ==
  /\ urlDb \in {NoAddr} \cup Addrs
  /\ urlPeers \in SUBSET Hints
  /\ storedAddr \in {NoAddr} \cup Addrs
  /\ run = [r \in Runs |-> IdleRun]
  /\ dial = [r \in Runs |-> [h \in Hints |-> "none"]]
  /\ opens = <<>>

\* ------------------------------------------------- openIntentionsDatabase
\* The call up to its first await: the dial phase (dialDirectPeers starts every
\* dial at once), or the first orbitdb.open.  Calls are numbered in call order.
openIntentionsDatabase(r, lp) ==
  /\ run[r].pc = "idle"
  /\ \A q \in 1..(r - 1) : run[q].pc # "idle"
  /\ IF urlDb # NoAddr
       THEN IF urlPeers # {} /\ lp
              THEN /\ run' = [run EXCEPT ![r] =
                        [ReadContext(lp) EXCEPT !.pc = "dialing",
                                                !.isJoinedViaInvitation = TRUE]]
                   /\ dial' = [dial EXCEPT ![r] =
                        [h \in Hints |-> IF h \in urlPeers THEN "pending" ELSE "none"]]
                   /\ UNCHANGED opens
              ELSE /\ run' = [run EXCEPT ![r] =
                        [ReadContext(lp) EXCEPT !.pc = "invOpen",
                                                !.isJoinedViaInvitation = TRUE,
                                                !.op = Len(opens) + 1]]
                   /\ opens' = Append(opens,
                        OpenCall(r, "invitation", urlDb, LongOpenDeadline))
                   /\ UNCHANGED dial
       ELSE IF storedAddr # NoAddr
              THEN /\ run' = [run EXCEPT ![r] =
                        [ReadContext(lp) EXCEPT !.pc = "storedOpen",
                                                !.op = Len(opens) + 1]]
                   /\ opens' = Append(opens,
                        OpenCall(r, "stored", storedAddr, StoredOpenDeadline))
                   /\ UNCHANGED dial
              ELSE /\ run' = [run EXCEPT ![r] =
                        [ReadContext(lp) EXCEPT !.pc = "newOpen",
                                                !.isNewDatabase = TRUE,
                                                !.op = Len(opens) + 1]]
                   /\ opens' = Append(opens,
                        OpenCall(r, "new", NoAddr, NewOpenDeadline))
                   /\ UNCHANGED dial
  /\ UNCHANGED <<urlDb, urlPeers, storedAddr>>
  /\ UNCHANGED offJoin

\* --------------------------------------------------------- dialDirectPeers
\* libp2p.dial(multiaddr) resolves: the mapped promise fulfils with true.
DialResolve(r, h) ==
  /\ dial[r][h] = "pending"
  /\ dial' = [dial EXCEPT ![r][h] = "ok"]
  /\ UNCHANGED <<urlDb, urlPeers, storedAddr, run, opens>>
  /\ UNCHANGED offJoin

\* libp2p.dial(multiaddr) rejects: the catch makes the promise fulfil with false.
DialReject(r, h) ==
  /\ dial[r][h] = "pending"
  /\ dial' = [dial EXCEPT ![r][h] = "failed"]
  /\ UNCHANGED <<urlDb, urlPeers, storedAddr, run, opens>>
  /\ UNCHANGED offJoin

successCount(r) == Cardinality({h \in Hints : dial[r][h] = "ok"})

\* The caller's continuation once dialDirectPeers has returned `connected`:
\* the 1 s pause when connected, otherwise the open with the long deadline.
AfterDial(r, connected) ==
  IF connected
    THEN /\ run' = [run EXCEPT ![r].pc = "stabilize",
                               ![r].directPeerConnected = TRUE]
         /\ UNCHANGED opens
    ELSE /\ run' = [run EXCEPT ![r].pc = "invOpen", ![r].op = Len(opens) + 1]
         /\ opens' = Append(opens,
              OpenCall(r, "invitation", run[r].urlAddress, LongOpenDeadline))

\* A variant that ends the wait at the first dial that succeeds.
DialAllSettled_FirstSuccess(r) ==
  /\ run[r].pc = "dialing"
  /\ \E h \in Hints : dial[r][h] = "ok"
  /\ AfterDial(r, TRUE)
  /\ UNCHANGED <<urlDb, urlPeers, storedAddr, dial>>
  /\ UNCHANGED offJoin

\* Promise.allSettled(dialPromises) wins the race: every dial has settled.
DialAllSettled(r) ==
  /\ run[r].pc = "dialing"
  /\ \A h \in Hints : dial[r][h] # "pending"
  /\ AfterDial(r, successCount(r) > 0)
  /\ UNCHANGED <<urlDb, urlPeers, storedAddr, dial>>
  /\ UNCHANGED offJoin

\* The 10 s timer wins the race while some dial is still pending: the catch
\* returns false.  The pending dials are not cancelled.
DialTimeout(r) ==
  /\ run[r].pc = "dialing"
  /\ \E h \in Hints : dial[r][h] = "pending"
  /\ AfterDial(r, FALSE)
  /\ UNCHANGED <<urlDb, urlPeers, storedAddr, dial>>
  /\ UNCHANGED offJoin

\* A variant that opens with the long deadline after the pause.
Stabilized_LongDeadline(r) ==
  /\ run[r].pc = "stabilize"
  /\ run' = [run EXCEPT ![r].pc = "invOpen", ![r].op = Len(opens) + 1]
  /\ opens' = Append(opens,
       [OpenCall(r, "invitation", run[r].urlAddress, LongOpenDeadline)
          EXCEPT !.pause = TRUE])
  /\ UNCHANGED <<urlDb, urlPeers, storedAddr, dial>>
  /\ UNCHANGED offJoin

\* The 1 s pause is over: orbitdb.open with the short deadline.
Stabilized(r) ==
  /\ run[r].pc = "stabilize"
  /\ run' = [run EXCEPT ![r].pc = "invOpen", ![r].op = Len(opens) + 1]
  /\ opens' = Append(opens,
       [OpenCall(r, "invitation", run[r].urlAddress, ShortOpenDeadline)
          EXCEPT !.pause = TRUE])
  /\ UNCHANGED <<urlDb, urlPeers, storedAddr, dial>>
  /\ UNCHANGED offJoin

\* ------------------------------------------------------------ orbitdb.open
\* database._isNewDatabase / database._isJoinedViaInvitation (lines 459-460)
FlagAndReturn(r, i, os) ==
  /\ opens' = [os EXCEPT ![i].returned = TRUE,
                         ![i].isNewDatabase = run[r].isNewDatabase,
                         ![i].isJoinedViaInvitation = run[r].isJoinedViaInvitation]
  /\ run' = [run EXCEPT ![r].pc = "returned"]

\* A variant that derives the invitation flag from the URL at return time.
OnOpenResolved_FlagFromUrl(r, i, os) ==
  LET o == os[i] IN
  /\ opens' = [os EXCEPT ![i].returned = TRUE,
                         ![i].isNewDatabase = run[r].isNewDatabase,
                         ![i].isJoinedViaInvitation =
                            ((IF o.kind = "invitation" THEN ClearedUrlDb ELSE urlDb)
                               # NoAddr)]
  /\ run' = [run EXCEPT ![r].pc = "returned"]
  /\ storedAddr' = CASE o.kind = "invitation" -> run[r].urlAddress
                     [] o.kind = "stored" -> storedAddr
                     [] o.kind = "new" -> o.address
  /\ urlDb' = IF o.kind = "invitation" THEN ClearedUrlDb ELSE urlDb
  /\ urlPeers' = IF o.kind = "invitation" THEN ClearedUrlPeers ELSE urlPeers

\* A variant that does not persist the invitation's address.
OnOpenResolved_NoPersist(r, i, os) ==
  LET o == os[i] IN
  /\ FlagAndReturn(r, i, os)
  /\ storedAddr' = CASE o.kind = "invitation" -> storedAddr
                     [] o.kind = "stored" -> storedAddr
                     [] o.kind = "new" -> o.address
  /\ urlDb' = IF o.kind = "invitation" THEN ClearedUrlDb ELSE urlDb
  /\ urlPeers' = IF o.kind = "invitation" THEN ClearedUrlPeers ELSE urlPeers

\* The continuation of call r when the open it awaits has resolved with the
\* database `os[i]` (lines 349-360, 406, 438-462): remember the address, clean
\* the URL, flag the database object and return it.
OnOpenResolved(r, i, os) ==
  LET o == os[i] IN
  /\ FlagAndReturn(r, i, os)
  /\ storedAddr' = CASE o.kind = "invitation" -> run[r].urlAddress
                     [] o.kind = "stored" -> storedAddr
                     [] o.kind = "new" -> o.address
  /\ urlDb' = IF o.kind = "invitation" THEN ClearedUrlDb ELSE urlDb
  /\ urlPeers' = IF o.kind = "invitation" THEN ClearedUrlPeers ELSE urlPeers

\* A variant whose catch leaves the invitation in the URL.
InvitationOpenFailed_KeepsUrl(r, os) ==
  /\ opens' = os
  /\ run' = [run EXCEPT ![r].pc = "threw",
                        ![r].error = IF run[r].peerMultiaddrs # {}
                                       THEN "peerUnreachable"
                                       ELSE "discoveryTimeout"]
  /\ UNCHANGED <<urlDb, urlPeers, storedAddr>>

\* A variant whose catch also forgets the remembered address.
InvitationOpenFailed_Forgets(r, os) ==
  /\ opens' = os
  /\ run' = [run EXCEPT ![r].pc = "threw",
                        ![r].error = IF run[r].peerMultiaddrs # {}
                                       THEN "peerUnreachable"
                                       ELSE "discoveryTimeout"]
  /\ urlDb' = ClearedUrlDb
  /\ urlPeers' = ClearedUrlPeers
  /\ storedAddr' = NoAddr

\* catch of the invitation branch (lines 361-381): clean the URL and throw.
InvitationOpenFailed(r, os) ==
  /\ opens' = os
  /\ run' = [run EXCEPT ![r].pc = "threw",
                        ![r].error = IF run[r].peerMultiaddrs # {}
                                       THEN "peerUnreachable"
                                       ELSE "discoveryTimeout"]
  /\ urlDb' = ClearedUrlDb
  /\ urlPeers' = ClearedUrlPeers
  /\ UNCHANGED storedAddr

\* catch of the stored branch (lines 407-411), then step 3 up to its await
\* (lines 415-436): forget the address and start creating a new store.
StoredOpenFailed(r, os) ==
  /\ storedAddr' = NoAddr
  /\ opens' = Append(os, OpenCall(r, "new", NoAddr, NewOpenDeadline))
  /\ run' = [run EXCEPT ![r].pc = "newOpen", ![r].isNewDatabase = TRUE,
                        ![r].op = Len(os) + 1]
  /\ UNCHANGED <<urlDb, urlPeers>>

\* step 3 has no catch (lines 420-436): the rejection leaves the call.
NewOpenFailed(r, os) ==
  /\ opens' = os
  /\ run' = [run EXCEPT ![r].pc = "threw", ![r].error = "newStoreOpen"]
  /\ UNCHANGED <<urlDb, urlPeers, storedAddr>>

\* A variant that falls back to the remembered address when the invitation fails.
OnOpenFailed_FallsBackToStored(r, i, os) ==
  CASE os[i].kind = "invitation" ->
         IF run[r].storedAddress # NoAddr
           THEN /\ opens' = Append(os, OpenCall(r, "stored", run[r].storedAddress,
                                                StoredOpenDeadline))
                /\ run' = [run EXCEPT ![r].pc = "storedOpen", ![r].op = Len(os) + 1]
                /\ urlDb' = ClearedUrlDb
                /\ urlPeers' = ClearedUrlPeers
                /\ UNCHANGED storedAddr
           ELSE InvitationOpenFailed(r, os)
    [] os[i].kind = "stored" -> StoredOpenFailed(r, os)
    [] os[i].kind = "new" -> NewOpenFailed(r, os)

\* A variant that keeps the remembered address after it failed to open.
OnOpenFailed_KeepsStored(r, i, os) ==
  CASE os[i].kind = "invitation" -> InvitationOpenFailed(r, os)
    [] os[i].kind = "stored" ->
         /\ opens' = Append(os, OpenCall(r, "new", NoAddr, NewOpenDeadline))
         /\ run' = [run EXCEPT ![r].pc = "newOpen", ![r].isNewDatabase = TRUE,
                               ![r].op = Len(os) + 1]
         /\ UNCHANGED <<urlDb, urlPeers, storedAddr>>
    [] os[i].kind = "new" -> NewOpenFailed(r, os)

\* A variant in which the failure of the remembered address ends the call.
OnOpenFailed_StoredFatal(r, i, os) ==
  CASE os[i].kind = "invitation" -> InvitationOpenFailed(r, os)
    [] os[i].kind = "stored" ->
         /\ opens' = os
         /\ run' = [run EXCEPT ![r].pc = "threw", ![r].error = "storedOpen"]
         /\ storedAddr' = NoAddr
         /\ UNCHANGED <<urlDb, urlPeers>>
    [] os[i].kind = "new" -> NewOpenFailed(r, os)

\* The continuation of call r when the race it awaits has rejected, by the
\* operation's error or by the deadline alike (lines 361-381, 407-411, 415-436).
OnOpenFailed(r, i, os) ==
  CASE os[i].kind = "invitation" -> InvitationOpenFailed(r, os)
    [] os[i].kind = "stored" -> StoredOpenFailed(r, os)
    [] os[i].kind = "new" -> NewOpenFailed(r, os)

\* Is open i the one its call is awaiting (its race is still undecided)?
Awaited(i) == Awaiting(opens[i].run) /\ run[opens[i].run].op = i

\* A variant whose late result still runs the continuation of the call.
OpenResolve_LatePersists(i, a) ==
  /\ i \in 1..Len(opens)
  /\ opens[i].status = "pending"
  /\ a = IF opens[i].kind = "new" THEN a ELSE opens[i].address
  /\ OnOpenResolved(opens[i].run, i,
                    [opens EXCEPT ![i].status = "resolved", ![i].address = a])
  /\ UNCHANGED dial
  /\ UNCHANGED offJoin

\* orbitdb.open resolves with a database.  A store opened by address keeps that
\* address; a created store gets the address a its manifest hashes to.  A result
\* that arrives after the deadline fired is dropped, the database stays open.
OpenResolve(i, a) ==
  /\ i \in 1..Len(opens)
  /\ opens[i].status = "pending"
  /\ a = IF opens[i].kind = "new" THEN a ELSE opens[i].address
  /\ LET os == [opens EXCEPT ![i].status = "resolved", ![i].address = a] IN
     IF Awaited(i)
       THEN OnOpenResolved(opens[i].run, i, os)
       ELSE /\ opens' = os
            /\ UNCHANGED <<urlDb, urlPeers, storedAddr, run>>
  /\ UNCHANGED dial
  /\ UNCHANGED offJoin

\* orbitdb.open rejects.
OpenReject(i) ==
  /\ i \in 1..Len(opens)
  /\ opens[i].status = "pending"
  /\ LET os == [opens EXCEPT ![i].status = "rejected"] IN
     IF Awaited(i)
       THEN OnOpenFailed(opens[i].run, i, os)
       ELSE /\ opens' = os
            /\ UNCHANGED <<urlDb, urlPeers, storedAddr, run>>
  /\ UNCHANGED dial
  /\ UNCHANGED offJoin

\* A variant whose deadline, unlike an error, keeps the remembered address.
OpenTimeout_KeepsStored(r) ==
  /\ Awaiting(r)
  /\ opens[run[r].op].status = "pending"
  /\ OnOpenFailed_KeepsStored(r, run[r].op,
                              [opens EXCEPT ![run[r].op].abandoned = TRUE])
  /\ UNCHANGED dial
  /\ UNCHANGED offJoin

\* A variant with no deadline on the open of a new store.
OpenTimeout_NoNewDeadline(r) ==
  /\ run[r].pc \in {"invOpen", "storedOpen"}
  /\ opens[run[r].op].status = "pending"
  /\ OnOpenFailed(r, run[r].op, [opens EXCEPT ![run[r].op].abandoned = TRUE])
  /\ UNCHANGED dial
  /\ UNCHANGED offJoin

\* The deadline timer of the race fires first: the open is abandoned, still
\* pending, and the call goes on as after an error.
OpenTimeout(r) ==
  /\ Awaiting(r)
  /\ opens[run[r].op].status = "pending"
  /\ OnOpenFailed(r, run[r].op, [opens EXCEPT ![run[r].op].abandoned = TRUE])
  /\ UNCHANGED dial
  /\ UNCHANGED offJoin

\* ------------------------------------------------------------------- Spec
JoinNext ==
  \/ \E r \in Runs, lp \in BOOLEAN : openIntentionsDatabase(r, lp)
  \/ \E r \in Runs, h \in Hints : DialResolve(r, h)
  \/ \E r \in Runs, h \in Hints : DialReject(r, h)
  \/ \E r \in Runs : DialAllSettled(r)
  \/ \E r \in Runs : DialTimeout(r)
  \/ \E r \in Runs : Stabilized(r)
  \/ \E i \in 1..(2 * MaxRuns), a \in Addrs : OpenResolve(i, a)
  \/ \E i \in 1..(2 * MaxRuns) : OpenReject(i)
  \/ \E r \in Runs : OpenTimeout(r)


\* ========================================================== write pipeline
\* A title is a string over a blank and a letter; an absent title is "".
Chars == {" ", "x"}

RECURSIVE Strings(_)
Strings(n) ==
  IF n = 0 THEN {<<>>}
  ELSE Strings(n - 1) \cup
       {Append(t, ch) : t \in {u \in Strings(n - 1) : Len(u) = n - 1}, ch \in Chars}

\* Strings past the limits the create form enforces.
LongTitle == [k \in 1..(TitleLimit + 1) |-> "x"]
LongDescription == [k \in 1..(DescriptionLimit + 1) |-> "x"]

Titles == Strings(MaxTitleLen)

\* intentionData as createIntention reads it: title and description.
IntentionData == {[title |-> t, description |-> <<>>] : t \in Titles}

LongIntentionData ==
  {[title |-> LongTitle, description |-> <<>>],
   [title |-> <<"x">>, description |-> LongDescription]}

\* String.prototype.trim
RECURSIVE trim(_)
trim(t) ==
  IF t = <<>> THEN t
  ELSE IF Head(t) = " " THEN trim(Tail(t))
  ELSE IF t[Len(t)] = " " THEN trim(SubSeq(t, 1, Len(t) - 1))
  ELSE t

\* The text embedIntention hands to generateEmbedding.
textToEmbed(intention) == intention.title \o <<" ">> \o intention.description

\* An embedding is modelled by the text it was computed from (the model is
\* deterministic); a record without one has the empty text, which no
\* intention embeds.
NoEmbedding == <<>>

\* An intention as createIntention builds it, before embedIntention.
\* createdAt grows with the id; completedAt and archivedAt are 0 while absent.
Intention(id, title, description) ==
  [_id |-> id, intentionId |-> id, title |-> title, description |-> description,
   status |-> "active", createdAt |-> id, updatedAt |-> id,
   embedding |-> NoEmbedding, embeddedAt |-> 0, completedAt |-> 0,
   archivedAt |-> 0]

\* embedIntention at time t
embedIntention(intention, t) ==
  [intention EXCEPT !.embedding = textToEmbed(intention), !.embeddedAt = t]

NoIntention == Intention(0, <<>>, <<>>)

\* Records of earlier sessions, which the cache and the store may hold already.
OldIntentions ==
  {embedIntention(Intention(MaxCreates + k, <<"x">>, <<>>), MaxCreates + k) :
     k \in 1..MaxOld}

\* Array.prototype.sort((a, b) => b.createdAt - a.createdAt) of a set of records
RECURSIVE sortByCreatedAtDesc(_)
sortByCreatedAtDesc(S) ==
  IF S = {} THEN <<>>
  ELSE LET newest == CHOOSE x \in S : \A y \in S : y.createdAt <= x.createdAt
       IN <<newest>> \o sortByCreatedAtDesc(S \ {newest})

\* IndexedDB put on an object store with keyPath intentionId; put on the
\* documents database opened with indexBy 'intentionId'
putByKey(S, rec) == {x \in S : x.intentionId # rec.intentionId} \cup {rec}

\* saveIntentionsToCache in one committed transaction: clear, then put each.
\* (intentions is a set here: the array's order does not reach the store.)
savedSnapshot(intentions) ==
  {x \in intentions :
     \A y \in intentions : y.intentionId = x.intentionId => y = x}

NoData == [title |-> <<>>, description |-> <<>>]

\* cacheRead / cacheWritten: whether IndexedDB served the call's cache read
\* and committed its cache write.
IdleCreate ==
  [pc |-> "idle", intentionData |-> NoData, intention |-> NoIntention,
   currentCache |-> {}, cacheRead |-> FALSE, cacheWritten |-> FALSE,
   put |-> "none", timeout |-> 0, error |-> "none"]

IdleLoad ==
  [pc |-> "idle", isNewDatabase |-> FALSE, result |-> <<>>, timeout |-> 0,
   failed |-> FALSE, all |-> "none"]

\* ================================================================== search
\* Scores are counted in tenths (a cosine of 0.5 is 5, a weight of 0.7 is 7),
\* combined scores and minScore in hundredths.
Tenths == 10

DefaultSemanticWeight == 7
DefaultGeoWeight == 3
DefaultMinScore == 10

\* intention.geo of an intention without coordinates (null)
NoGeo == -1

\* An intention as searchIntentions reads it: whether it has an embedding,
\* the cosine of its embedding with the query's, and its distance in km from
\* the user's location (NoGeo without coordinates).
SearchKinds ==
  [embedding : {TRUE}, semantic : {-5, 5, 10}, geo : {NoGeo, 0, 50}] \cup
  [embedding : {FALSE}, semantic : {0}, geo : {NoGeo}]

SearchLists ==
  UNION {[1..n -> SearchKinds] : n \in 0..MaxItems}

\* The intentions of a list, each with its position as intentionId.
withIds(list) ==
  [k \in 1..Len(list) |->
     [intentionId |-> k, embedding |-> list[k].embedding,
      semantic |-> list[k].semantic, geo |-> list[k].geo]]

SearchOptions ==
  [userLocation : BOOLEAN,
   weights : {<<DefaultSemanticWeight, DefaultGeoWeight>>, <<Tenths, Tenths>>},
   minScore : {-100, 0, DefaultMinScore},
   maxResults : (0..(MaxItems - 1)) \cup {DefaultMaxResults}]

\* normalizeGeoScore(distance, 100), in tenths
normalizeGeoScore(distance) ==
  IF distance = NoGeo THEN 0
  ELSE IF Tenths - (distance * Tenths) \div MaxDistance > 0
         THEN Tenths - (distance * Tenths) \div MaxDistance
         ELSE 0

NullResult ==
  [null |-> TRUE, intentionId |-> 0, combined |-> 0, semantic |-> 0, geo |-> 0]

\* A variant that weights the scores whether or not both locations are known.
scores_AlwaysWeighted(intention, options) ==
  LET semanticScore == intention.semantic
      useGeo == options.userLocation /\ intention.geo # NoGeo
      geoScore == IF useGeo THEN normalizeGeoScore(intention.geo) ELSE 0
  IN [null |-> FALSE,
      intentionId |-> intention.intentionId,
      combined |-> semanticScore * options.weights[1] +
                   geoScore * options.weights[2],
      semantic |-> semanticScore,
      geo |-> geoScore]

\* The scores of an intention: semantic, geo, and their weighted sum when
\* both locations are known (the semantic score alone otherwise).
scores(intention, options) ==
  LET semanticScore == intention.semantic
      useGeo == options.userLocation /\ intention.geo # NoGeo
      geoScore == IF useGeo THEN normalizeGeoScore(intention.geo) ELSE 0
  IN [null |-> FALSE,
      intentionId |-> intention.intentionId,
      combined |-> IF useGeo
                     THEN semanticScore * options.weights[1] +
                          geoScore * options.weights[2]
                     ELSE semanticScore * Tenths,
      semantic |-> semanticScore,
      geo |-> geoScore]

\* A variant of the scoring that scores an intention without embedding
\* instead of skipping it.
scoreIntention_NoSkip(intention, options) ==
  scores(intention, options)

\* The callback of intentions.map: null without an embedding, otherwise the
\* intention with its scores.
scoreIntention(intention, options) ==
  IF ~intention.embedding
    THEN NullResult
    ELSE scores(intention, options)

\* .filter((result) => result !== null && result.score.combined >= minScore)
keeps(result, options) == ~result.null /\ result.combined >= options.minScore

\* A variant of the sort that leaves the list in its order.
sortByCombinedDesc_Unsorted(results) ==
  results

\* .sort((a, b) => b.score.combined - a.score.combined): stable, descending
RECURSIVE sortByCombinedDesc(_)
sortByCombinedDesc(results) ==
  IF results = <<>> THEN <<>>
  ELSE LET rest == sortByCombinedDesc(Tail(results))
           x == Head(results)
           ahead == {k \in 1..Len(rest) : rest[k].combined > x.combined}
           n == Cardinality(ahead)
       IN SubSeq(rest, 1, n) \o <<x>> \o SubSeq(rest, n + 1, Len(rest))

\* .slice(0, maxResults) for maxResults >= 0
slice(results, maxResults) ==
  SubSeq(results, 1, IF maxResults < Len(results) THEN maxResults ELSE Len(results))

\* The map / filter / sort / slice chain of searchIntentions.
searchResults(intentions, options) ==
  LET scored == [k \in 1..Len(intentions) |-> scoreIntention(intentions[k], options)]
      kept == SelectSeq(scored, LAMBDA result : keeps(result, options))
  IN slice(sortByCombinedDesc(kept), options.maxResults)

NoOptions ==
  [userLocation |-> FALSE, weights |-> <<DefaultSemanticWeight, DefaultGeoWeight>>,
   minScore |-> DefaultMinScore, maxResults |-> DefaultMaxResults]

IdleSearch ==
  [pc |-> "idle", intentions |-> <<>>, options |-> NoOptions, results |-> <<>>]

SearchIdle == search = IdleSearch

\* ====================================================== attention-switch log
IdleSwitch == [pc |-> "idle", credential |-> FALSE]

\* A variant that drops the newest event instead of the oldest.
trimLog_DropsNewest(log) ==
  IF Len(log) > LogLimit THEN SubSeq(log, 1, Len(log) - 1) ELSE log

\* if (eventLog.length > 50) eventLog.shift()
trimLog(log) ==
  IF Len(log) > LogLimit THEN Tail(log) ELSE log

LogIdle ==
  /\ switches = [k \in Switchers |-> IdleSwitch]
  /\ signed = 0
  /\ eventLog = <<>>

\* ======================================================= independent sessions
\* The identities of the sessions (identity.id).
Identities == 1..MaxSessions

GlobalDatabaseName == "syncengine-global-intentions"

\* write: ['*'], every identity (identities are 1, 2, ...)
AnyWriter == 0

\* An OrbitDB address is the hash of the store's manifest: its name, its type
\* and its access controller.  It is modelled by the manifest itself.
NoManifest == [name |-> "", type |-> "", write |-> {}]

\* A variant that lets only the creating identity write.
newStoreManifest_OwnIdentity(identity) ==
  [name |-> GlobalDatabaseName, type |-> "documents", write |-> {identity}]

\* The manifest of orbitdb.open(globalDatabaseName, { type: 'documents',
\* accessController: IPFSAccessController({ write: ['*'] }) }) by `identity`
newStoreManifest(identity) ==
  [name |-> GlobalDatabaseName, type |-> "documents", write |-> {AnyWriter}]

IdleSession ==
  [pc |-> "idle", identity |-> 0, open |-> "none", storedAddr |-> NoManifest,
   address |-> NoManifest, isNewDatabase |-> FALSE, error |-> "none"]

PairIdle == sessions = [x \in Sessions |-> IdleSession]

\* ============================================================ IndexedDB cache
\* The records that calls hand to saveIntentionsToCache.
CachedRecords ==
  {embedIntention(Intention(k, <<"x">>, <<>>), k) : k \in 1..MaxCached}

NoTx == 0

\* db.transaction([CACHE_STORE_NAME], mode).  undo: the object store as the
\* transaction found it; snapshot: what a readwrite transaction is to leave.
Transaction(mode, snapshot) ==
  [mode |-> mode, state |-> "live", undo |-> {}, snapshot |-> snapshot]

IdleSave ==
  [pc |-> "idle", intentions |-> {}, left |-> {}, tx |-> NoTx, saved |-> FALSE]

IdleRead ==
  [pc |-> "idle", tx |-> NoTx, result |-> <<>>, failed |-> FALSE]

IdbIdle ==
  /\ txs = <<>>
  /\ saves = [w \in Savers |-> IdleSave]
  /\ reads = [d \in Readers |-> IdleRead]

\* ============================================================ embedding model
NoModel == 0

\* kind: the function called; awaits: the pipeline promise the call awaits;
\* model: the model the call ended with.
IdleEmbed ==
  [pc |-> "idle", kind |-> "none", awaits |-> NoModel, own |-> FALSE,
   model |-> NoModel]

ModelIdle ==
  /\ embeddingModel = NoModel
  /\ modelLoading = NoModel
  /\ pipelines = <<>>
  /\ embeds = [k \in Embedders |-> IdleEmbed]

RestIdle == SearchIdle /\ LogIdle /\ PairIdle /\ IdbIdle /\ ModelIdle

\* ------------------------------------------------------ updates (patches)
\* An updates object: has is the set of its own properties, the other fields
\* their values (a field outside has is absent and holds a filler).
PatchFields == {"title", "description", "status", "intentionId", "_id"}

NoPatch ==
  [has |-> {}, title |-> <<>>, description |-> <<>>, status |-> "active",
   intentionId |-> 0, _id |-> 0, completedAt |-> 0, archivedAt |-> 0]

PatchTexts == {<<>>, <<"x", "x">>}

Patches ==
  {p \in [has : SUBSET PatchFields, title : PatchTexts, description : PatchTexts,
          status : {"active", "completed"}, intentionId : {0} \cup Ids,
          _id : {0} \cup Ids, completedAt : {0}, archivedAt : {0}] :
     \A f \in PatchFields :
       IF f \in p.has
         THEN (f \in {"intentionId", "_id"} => p[f] # 0) /\
              (f = "status" => p[f] = "completed")
         ELSE p[f] = NoPatch[f]}

\* JavaScript truthiness of updates.title / updates.description: an absent
\* property is undefined, '' is falsy, any other string is truthy.
truthy(updates, f) == f \in updates.has /\ updates[f] # <<>>

\* { ...existing[0], ...updates, updatedAt: Date.now() } at time t
spread(existing, updates, t) ==
  [[f \in DOMAIN existing |->
      IF f \in updates.has THEN updates[f] ELSE existing[f]]
   EXCEPT !.updatedAt = t]

\* A variant that regenerates the embedding on every update.
regenerates_Always(updates) ==
  TRUE

\* if (updates.title || updates.description)
regenerates(updates) ==
  truthy(updates, "title") \/ truthy(updates, "description")

\* The documents an update may find: created and embedded at time 0.
StoredIntentions ==
  {[embedIntention(Intention(k, <<"x">>, <<"x">>), 0)
      EXCEPT !.createdAt = 0, !.updatedAt = 0] : k \in Ids}

IdleUpdate ==
  [pc |-> "idle", intentionId |-> 0, updates |-> NoPatch,
   existing |-> NoIntention, updatedIntention |-> NoIntention,
   error |-> "none"]

UpdateIdle ==
  /\ calls = [u \in Updaters |-> IdleUpdate]
  /\ now = 1

WriteIdle ==
  /\ cache = {}
  /\ store = {}
  /\ creates = [c \in Creators |-> IdleCreate]
  /\ loads = [l \in Loaders |-> IdleLoad]
  /\ UpdateIdle
  /\ RestIdle

\* A variant that checks the title for emptiness only, not after trimming.
createIntention_NoTrim(c, intentionData) ==
  /\ creates[c].pc = "idle"
  /\ \A q \in 1..(c - 1) : creates[q].pc # "idle"
  /\ IF intentionData.title = <<>>
       THEN creates' = [creates EXCEPT ![c].pc = "threw",
                                       ![c].intentionData = intentionData,
                                       ![c].error = "titleRequired"]
       ELSE creates' = [creates EXCEPT
              ![c].pc = "embedding",
              ![c].intentionData = intentionData,
              ![c].intention = Intention(c, trim(intentionData.title),
                                         trim(intentionData.description))]
  /\ UNCHANGED <<cache, store, loads>>
  /\ UNCHANGED offWrite

\* ---------------------------------------------------------- createIntention
\* The call up to its first await: validation, the record, embedIntention.
createIntention(c, intentionData) ==
  /\ creates[c].pc = "idle"
  /\ \A q \in 1..(c - 1) : creates[q].pc # "idle"
  /\ IF intentionData.title = <<>> \/ trim(intentionData.title) = <<>>
       THEN creates' = [creates EXCEPT ![c].pc = "threw",
                                       ![c].intentionData = intentionData,
                                       ![c].error = "titleRequired"]
       ELSE creates' = [creates EXCEPT
              ![c].pc = "embedding",
              ![c].intentionData = intentionData,
              ![c].intention = Intention(c, trim(intentionData.title),
                                         trim(intentionData.description))]
  /\ UNCHANGED <<cache, store, loads>>
  /\ UNCHANGED offWrite

\* embedIntention resolves: loadIntentionsFromCache is started.
EmbedResolve(c) ==
  /\ creates[c].pc = "embedding"
  /\ creates' = [creates EXCEPT ![c].pc = "cacheLoad",
                                ![c].intention =
                                   embedIntention(@, @.createdAt)]
  /\ UNCHANGED <<cache, store, loads>>
  /\ UNCHANGED offWrite

\* embedIntention rejects (the model failed to load): the call rethrows.
EmbedReject(c) ==
  /\ creates[c].pc = "embedding"
  /\ creates' = [creates EXCEPT ![c].pc = "threw", ![c].error = "embedding"]
  /\ UNCHANGED <<cache, store, loads>>
  /\ UNCHANGED offWrite

\* loadIntentionsFromCache returns the cached records, or [] when IndexedDB
\* failed; saveIntentionsToCache([...currentCache, intention]) is started.
CacheLoaded(c, ok) ==
  /\ creates[c].pc = "cacheLoad"
  /\ creates' = [creates EXCEPT ![c].pc = "cacheSave",
                                ![c].cacheRead = ok,
                                ![c].currentCache = IF ok THEN cache ELSE {}]
  /\ UNCHANGED <<cache, store, loads>>
  /\ UNCHANGED offWrite

\* saveIntentionsToCache is over: its transaction committed, or IndexedDB failed
\* and the catch only warned.  Either way database.put is started, raced
\* against the 15 s timer.
CacheSaved(c, ok) ==
  /\ creates[c].pc = "cacheSave"
  /\ cache' = IF ok
                THEN savedSnapshot(creates[c].currentCache \cup {creates[c].intention})
                ELSE cache
  /\ creates' = [creates EXCEPT ![c].pc = "put", ![c].put = "pending",
                                ![c].cacheWritten = ok,
                                ![c].timeout = WriteDeadline]
  /\ UNCHANGED <<store, loads>>
  /\ UNCHANGED offWrite

\* database.put resolves; after the deadline the result is dropped.
PutResolve(c) ==
  /\ creates[c].put = "pending"
  /\ store' = putByKey(store, creates[c].intention)
  /\ creates' = [creates EXCEPT ![c].put = "resolved",
                                ![c].pc = IF @ = "put" THEN "returned" ELSE @]
  /\ UNCHANGED <<cache, loads>>
  /\ UNCHANGED offWrite

\* database.put rejects: logged, the call returns the record all the same.
PutReject(c) ==
  /\ creates[c].put = "pending"
  /\ creates' = [creates EXCEPT ![c].put = "rejected",
                                ![c].pc = IF @ = "put" THEN "returned" ELSE @]
  /\ UNCHANGED <<cache, store, loads>>
  /\ UNCHANGED offWrite

\* The 15 s timer fires first: logged, the call returns, the put stays pending.
PutTimeout(c) ==
  /\ creates[c].pc = "put"
  /\ creates[c].put = "pending"
  /\ creates' = [creates EXCEPT ![c].pc = "returned", ![c].error = "writeTimeout"]
  /\ UNCHANGED <<cache, store, loads>>
  /\ UNCHANGED offWrite

\* A variant that reads the store whatever the flag says.
loadIntentions_IgnoresFlag(l, isNewDatabase) ==
  /\ loads[l].pc = "idle"
  /\ \A q \in 1..(l - 1) : loads[q].pc # "idle"
  /\ loads' = [loads EXCEPT ![l].pc = "reading",
                            ![l].isNewDatabase = isNewDatabase,
                            ![l].timeout = ReadDeadline,
                            ![l].all = "pending"]
  /\ UNCHANGED <<cache, store, creates>>
  /\ UNCHANGED offWrite

\* ----------------------------------------------------------- loadIntentions
\* The call up to its first await: [] at once for a new database, otherwise
\* database.all() raced against the 30 s timer.
loadIntentions(l, isNewDatabase) ==
  /\ loads[l].pc = "idle"
  /\ \A q \in 1..(l - 1) : loads[q].pc # "idle"
  /\ loads' = [loads EXCEPT ![l].pc = IF isNewDatabase THEN "returned" ELSE "reading",
                            ![l].isNewDatabase = isNewDatabase,
                            ![l].timeout = IF isNewDatabase THEN 0 ELSE ReadDeadline,
                            ![l].all = IF isNewDatabase THEN "none" ELSE "pending"]
  /\ UNCHANGED <<cache, store, creates>>
  /\ UNCHANGED offWrite

\* database.all() resolves: map to values, sort, start saveIntentionsToCache.
\* After the deadline the entries are dropped.
AllResolve(l) ==
  /\ loads[l].all = "pending"
  /\ loads' = IF loads[l].pc = "reading"
                THEN [loads EXCEPT ![l].pc = "caching", ![l].all = "resolved",
                                   ![l].result = sortByCreatedAtDesc(store)]
                ELSE [loads EXCEPT ![l].all = "resolved"]
  /\ UNCHANGED <<cache, store, creates>>
  /\ UNCHANGED offWrite

\* catch of loadIntentions (lines 547-553): return [] rather than throw.
AllFailed(ls, l) ==
  [ls EXCEPT ![l].pc = "returned", ![l].result = <<>>, ![l].failed = TRUE]

\* database.all() rejects: the catch returns []; after the deadline nothing
\* is left to catch it.
AllReject(l) ==
  /\ loads[l].all = "pending"
  /\ loads' = IF loads[l].pc = "reading"
                THEN AllFailed([loads EXCEPT ![l].all = "rejected"], l)
                ELSE [loads EXCEPT ![l].all = "rejected"]
  /\ UNCHANGED <<cache, store, creates>>
  /\ UNCHANGED offWrite

\* The 30 s timer fires first: the catch returns [], the read stays pending.
AllTimeout(l) ==
  /\ loads[l].pc = "reading"
  /\ loads[l].all = "pending"
  /\ loads' = AllFailed(loads, l)
  /\ UNCHANGED <<cache, store, creates>>
  /\ UNCHANGED offWrite

\* A variant that adds the records read to the cache without clearing it.
LoadCached_Merges(l, ok) ==
  /\ loads[l].pc = "caching"
  /\ cache' = IF ok
                THEN cache \cup {loads[l].result[k] : k \in 1..Len(loads[l].result)}
                ELSE cache
  /\ loads' = [loads EXCEPT ![l].pc = "returned"]
  /\ UNCHANGED <<store, creates>>
  /\ UNCHANGED offWrite

\* saveIntentionsToCache(intentions) is over (committed, or failed and warned):
\* the call returns what it read.
LoadCached(l, ok) ==
  /\ loads[l].pc = "caching"
  /\ cache' = IF ok
                THEN savedSnapshot({loads[l].result[k] : k \in 1..Len(loads[l].result)})
                ELSE cache
  /\ loads' = [loads EXCEPT ![l].pc = "returned"]
  /\ UNCHANGED <<store, creates>>
  /\ UNCHANGED offWrite

JoinQuiet ==
  /\ urlDb = NoAddr
  /\ urlPeers = {}
  /\ storedAddr = NoAddr
  /\ run = [r \in Runs |-> IdleRun]
  /\ dial = [r \in Runs |-> [h \in Hints |-> "none"]]
  /\ opens = <<>>

\* A session is open; the cache and the store may hold records already.
WriteInit ==
  /\ JoinQuiet
  /\ cache \in SUBSET OldIntentions
  /\ store \in SUBSET OldIntentions
  /\ creates = [c \in Creators |-> IdleCreate]
  /\ loads = [l \in Loaders |-> IdleLoad]
  /\ UpdateIdle
  /\ RestIdle

WriteNext ==
  \/ \E c \in Creators, intentionData \in IntentionData :
       createIntention(c, intentionData)
  \/ \E c \in Creators : EmbedResolve(c)
  \/ \E c \in Creators : EmbedReject(c)
  \/ \E c \in Creators, ok \in BOOLEAN : CacheLoaded(c, ok)
  \/ \E c \in Creators, ok \in BOOLEAN : CacheSaved(c, ok)
  \/ \E c \in Creators : PutResolve(c)
  \/ \E c \in Creators : PutReject(c)
  \/ \E c \in Creators : PutTimeout(c)
  \/ \E l \in Loaders, isNewDatabase \in BOOLEAN : loadIntentions(l, isNewDatabase)
  \/ \E l \in Loaders : AllResolve(l)
  \/ \E l \in Loaders : AllReject(l)
  \/ \E l \in Loaders : AllTimeout(l)
  \/ \E l \in Loaders, ok \in BOOLEAN : LoadCached(l, ok)

WriteSpec == WriteInit /\ [][WriteNext]_vars

\* The same pipeline, called with fields past the form's limits.
LimitNext ==
  \/ \E c \in Creators, intentionData \in LongIntentionData :
       createIntention(c, intentionData)
  \/ \E c \in Creators : EmbedResolve(c)
  \/ \E c \in Creators : EmbedReject(c)
  \/ \E c \in Creators, ok \in BOOLEAN : CacheLoaded(c, ok)
  \/ \E c \in Creators, ok \in BOOLEAN : CacheSaved(c, ok)
  \/ \E c \in Creators : PutResolve(c)
  \/ \E c \in Creators : PutReject(c)
  \/ \E c \in Creators : PutTimeout(c)
  \/ \E l \in Loaders, isNewDatabase \in BOOLEAN : loadIntentions(l, isNewDatabase)
  \/ \E l \in Loaders : AllResolve(l)
  \/ \E l \in Loaders : AllReject(l)
  \/ \E l \in Loaders : AllTimeout(l)
  \/ \E l \in Loaders, ok \in BOOLEAN : LoadCached(l, ok)

LimitSpec == WriteInit /\ [][LimitNext]_vars

\* =========================================================== updateIntention
\* The call up to its first await: the argument check, then database.get.
updateIntention(u, intentionId, patch) ==
  /\ calls[u].pc = "idle"
  /\ \A q \in 1..(u - 1) : calls[q].pc # "idle"
  /\ calls' = [calls EXCEPT
        ![u].pc = IF intentionId = 0 THEN "threw" ELSE "getting",
        ![u].intentionId = intentionId,
        ![u].updates = patch,
        ![u].error = IF intentionId = 0 THEN "required" ELSE "none"]
  /\ UNCHANGED <<store, now>>
  /\ UNCHANGED offUpdate

\* completeIntention: updateIntention with { status: 'completed', completedAt }
completeIntention(u, intentionId) ==
  updateIntention(u, intentionId,
    [NoPatch EXCEPT !.has = {"status", "completedAt"}, !.status = "completed",
                    !.completedAt = now])

\* archiveIntention: updateIntention with { status: 'archived', archivedAt }
archiveIntention(u, intentionId) ==
  updateIntention(u, intentionId,
    [NoPatch EXCEPT !.has = {"status", "archivedAt"}, !.status = "archived",
                    !.archivedAt = now])

\* database.get resolves with the documents under the key.  None: the call
\* throws.  Otherwise the merge; embedIntention or database.put is started.
GetResolve(u) ==
  /\ calls[u].pc = "getting"
  /\ LET existing == {d \in store : d.intentionId = calls[u].intentionId}
     IN IF existing = {}
          THEN calls' = [calls EXCEPT ![u].pc = "threw",
                                          ![u].error = "notFound"]
          ELSE \E e \in existing :
                 calls' = [calls EXCEPT
                   ![u].existing = e,
                   ![u].updatedIntention = spread(e, calls[u].updates, now),
                   ![u].pc = IF regenerates(calls[u].updates)
                               THEN "embedding" ELSE "putting"]
  /\ UNCHANGED <<store, now>>
  /\ UNCHANGED offUpdate

\* database.get rejects: the catch logs and rethrows.
GetReject(u) ==
  /\ calls[u].pc = "getting"
  /\ calls' = [calls EXCEPT ![u].pc = "threw", ![u].error = "get"]
  /\ UNCHANGED <<store, now>>
  /\ UNCHANGED offUpdate

\* embedIntention(updatedIntention) resolves: database.put(reembedded) is started.
ReembedResolve(u) ==
  /\ calls[u].pc = "embedding"
  /\ calls' = [calls EXCEPT ![u].pc = "putting",
                                ![u].updatedIntention = embedIntention(@, now)]
  /\ UNCHANGED <<store, now>>
  /\ UNCHANGED offUpdate

\* embedIntention rejects: the catch logs and rethrows.
ReembedReject(u) ==
  /\ calls[u].pc = "embedding"
  /\ calls' = [calls EXCEPT ![u].pc = "threw", ![u].error = "embedding"]
  /\ UNCHANGED <<store, now>>
  /\ UNCHANGED offUpdate

\* database.put resolves: the call returns the record it wrote.
UpdatePutResolve(u) ==
  /\ calls[u].pc = "putting"
  /\ store' = putByKey(store, calls[u].updatedIntention)
  /\ calls' = [calls EXCEPT ![u].pc = "returned"]
  /\ UNCHANGED now
  /\ UNCHANGED offUpdate

\* A variant that swallows the put failure as createIntention does.
UpdatePutReject_Swallowed(u) ==
  /\ calls[u].pc = "putting"
  /\ calls' = [calls EXCEPT ![u].pc = "returned", ![u].error = "put"]
  /\ UNCHANGED <<store, now>>
  /\ UNCHANGED offUpdate

\* database.put rejects: the catch logs and rethrows.  (The put is awaited
\* alone, with no timer to race it.)
UpdatePutReject(u) ==
  /\ calls[u].pc = "putting"
  /\ calls' = [calls EXCEPT ![u].pc = "threw", ![u].error = "put"]
  /\ UNCHANGED <<store, now>>
  /\ UNCHANGED offUpdate

\* Time passes.
Tick ==
  /\ now < MaxNow
  /\ now' = now + 1
  /\ UNCHANGED <<store, calls>>
  /\ UNCHANGED offUpdate

\* A session is open on a database that holds some documents.
UpdateInit ==
  /\ JoinQuiet
  /\ cache = {}
  /\ creates = [c \in Creators |-> IdleCreate]
  /\ loads = [l \in Loaders |-> IdleLoad]
  /\ store \in SUBSET StoredIntentions
  /\ UpdateIdle
  /\ RestIdle

UpdateNext ==
  \/ \E u \in Updaters, id \in {0} \cup Ids, patch \in Patches :
       updateIntention(u, id, patch)
  \/ \E u \in Updaters, id \in {0} \cup Ids : completeIntention(u, id)
  \/ \E u \in Updaters, id \in {0} \cup Ids : archiveIntention(u, id)
  \/ \E u \in Updaters : GetResolve(u)
  \/ \E u \in Updaters : GetReject(u)
  \/ \E u \in Updaters : ReembedResolve(u)
  \/ \E u \in Updaters : ReembedReject(u)
  \/ \E u \in Updaters : UpdatePutResolve(u)
  \/ \E u \in Updaters : UpdatePutReject(u)
  \/ Tick

UpdateSpec == UpdateInit /\ [][UpdateNext]_vars

\* =========================================================== searchIntentions
\* The call, with the intentions and options at hand, up to its await: the
\* options are read, then generateEmbedding(query) is awaited.
searchIntentions ==
  /\ search.pc = "idle"
  /\ search' = [search EXCEPT !.pc = "embedding"]
  /\ UNCHANGED offSearch

\* generateEmbedding resolves: score, filter, sort, slice, return.
QueryEmbedded ==
  /\ search.pc = "embedding"
  /\ search' = [search EXCEPT !.pc = "returned",
                              !.results = searchResults(search.intentions,
                                                        search.options)]
  /\ UNCHANGED offSearch

\* generateEmbedding rejects (the model failed to load): the call rejects.
QueryEmbedFailed ==
  /\ search.pc = "embedding"
  /\ search' = [search EXCEPT !.pc = "threw"]
  /\ UNCHANGED offSearch

\* The arguments of the call are any list of intentions and any options;
\* everything but the search is at rest.
SearchInit ==
  /\ JoinQuiet
  /\ cache = {}
  /\ store = {}
  /\ creates = [c \in Creators |-> IdleCreate]
  /\ loads = [l \in Loaders |-> IdleLoad]
  /\ UpdateIdle
  /\ LogIdle
  /\ PairIdle
  /\ IdbIdle
  /\ ModelIdle
  /\ \E list \in SearchLists, options \in SearchOptions :
       search = [IdleSearch EXCEPT !.intentions = withIds(list),
                                   !.options = options]

SearchNext ==
  \/ searchIntentions
  \/ QueryEmbedded
  \/ QueryEmbedFailed

SearchSpec == SearchInit /\ [][SearchNext]_vars

\* ============================================================ handleMakeActive
\* The call up to its await: without a credential it returns at once,
\* otherwise the event is built and webauthnProvider.sign is awaited.
handleMakeActive(k, credential) ==
  /\ switches[k].pc \in {"idle", "authRequired", "activated", "failed"}
  /\ switches' = [switches EXCEPT ![k].pc = IF credential THEN "signing"
                                                         ELSE "authRequired",
                                  ![k].credential = credential]
  /\ UNCHANGED <<signed, eventLog>>
  /\ UNCHANGED offLog

\* sign resolves: the log is read from localStorage, the signed event pushed,
\* the oldest shifted out past 50, and the log written back, in one turn.
SignResolve(k) ==
  /\ switches[k].pc = "signing"
  /\ signed < MaxSigned
  /\ signed' = signed + 1
  /\ eventLog' = trimLog(Append(eventLog, signed + 1))
  /\ switches' = [switches EXCEPT ![k].pc = "activated"]
  /\ UNCHANGED offLog

\* sign rejects (cancelled, or no authenticator): the catch sets the status.
SignReject(k) ==
  /\ switches[k].pc = "signing"
  /\ switches' = [switches EXCEPT ![k].pc = "failed"]
  /\ UNCHANGED <<signed, eventLog>>
  /\ UNCHANGED offLog

LogInit ==
  /\ JoinQuiet
  /\ WriteIdle

LogNext ==
  \/ \E k \in Switchers, credential \in BOOLEAN : handleMakeActive(k, credential)
  \/ \E k \in Switchers : SignResolve(k)
  \/ \E k \in Switchers : SignReject(k)

LogSpec == LogInit /\ [][LogNext]_vars

\* ================================================== two sessions, each new
\* openIntentionsDatabase in a session with no invitation and no remembered
\* address: step 3 up to its await.
createStore(x, identity) ==
  /\ sessions[x].pc = "idle"
  /\ sessions' = [sessions EXCEPT ![x].pc = "newOpen", ![x].identity = identity,
                                  ![x].isNewDatabase = TRUE,
                                  ![x].open = "pending"]
  /\ UNCHANGED offPair

\* orbitdb.open resolves with the store of the manifest; in time, the address
\* is remembered and the database returned.
CreateResolve(x) ==
  /\ sessions[x].open = "pending"
  /\ sessions' = IF sessions[x].pc = "newOpen"
       THEN [sessions EXCEPT ![x].pc = "returned", ![x].open = "resolved",
                             ![x].address = newStoreManifest(sessions[x].identity),
                             ![x].storedAddr = newStoreManifest(sessions[x].identity)]
       ELSE [sessions EXCEPT ![x].open = "resolved"]
  /\ UNCHANGED offPair

\* orbitdb.open rejects: in time, the call throws.
CreateReject(x) ==
  /\ sessions[x].open = "pending"
  /\ sessions' = IF sessions[x].pc = "newOpen"
       THEN [sessions EXCEPT ![x].pc = "threw", ![x].open = "rejected",
                             ![x].error = "newStoreOpen"]
       ELSE [sessions EXCEPT ![x].open = "rejected"]
  /\ UNCHANGED offPair

\* The 15 s timer fires first: the call throws, the open stays pending.
CreateTimeout(x) ==
  /\ sessions[x].pc = "newOpen"
  /\ sessions[x].open = "pending"
  /\ sessions' = [sessions EXCEPT ![x].pc = "threw", ![x].error = "timeout"]
  /\ UNCHANGED offPair

PairInit ==
  /\ JoinQuiet
  /\ WriteIdle

PairNext ==
  \/ \E x \in Sessions, identity \in Identities : createStore(x, identity)
  \/ \E x \in Sessions : CreateResolve(x)
  \/ \E x \in Sessions : CreateReject(x)
  \/ \E x \in Sessions : CreateTimeout(x)

PairSpec == PairInit /\ [][PairNext]_vars

\* ------------------------------------------------------------------ CacheSpec
\* IndexedDB runs the requests of a transaction once every transaction created
\* before it on the same object store is finished, two readonly ones excepted.
canRun(t) ==
  \A u \in 1..(t - 1) :
    \/ txs[u].state # "live"
    \/ txs[u].mode = "readonly" /\ txs[t].mode = "readonly"

\* saveIntentionsToCache up to its first await inside the transaction (lines
\* 77-82): the readwrite transaction is created and store.clear() requested.
saveIntentionsToCache(w, intentions) ==
  /\ saves[w].pc = "idle"
  /\ \A q \in 1..(w - 1) : saves[q].pc # "idle"
  /\ txs' = Append(txs, Transaction("readwrite", savedSnapshot(intentions)))
  /\ saves' = [saves EXCEPT ![w].pc = "clearing", ![w].intentions = intentions,
                            ![w].left = intentions, ![w].tx = Len(txs) + 1]
  /\ UNCHANGED <<cache, reads>>
  /\ UNCHANGED offIdb

\* openCacheDB rejects: the catch warns and the call returns (lines 99-101).
SaveOpenFailed(w, intentions) ==
  /\ saves[w].pc = "idle"
  /\ \A q \in 1..(w - 1) : saves[q].pc # "idle"
  /\ saves' = [saves EXCEPT ![w].pc = "returned", ![w].intentions = intentions]
  /\ UNCHANGED <<cache, txs, reads>>
  /\ UNCHANGED offIdb

\* A variant that clears the store in a transaction of its own and puts the
\* records in a second one.
ClearDone_OwnTransaction(w) ==
  /\ saves[w].pc = "clearing"
  /\ canRun(saves[w].tx)
  /\ cache' = {}
  /\ txs' = Append([txs EXCEPT ![saves[w].tx].undo = cache,
                               ![saves[w].tx].state = "committed"],
                   Transaction("readwrite", savedSnapshot(saves[w].intentions)))
  /\ saves' = [saves EXCEPT ![w].pc = "putting", ![w].tx = Len(txs) + 1]
  /\ UNCHANGED reads
  /\ UNCHANGED offIdb

\* clearRequest.onsuccess (lines 83-85): the store is empty; the loop requests
\* a put for every record, in the same transaction (lines 89-91).
ClearDone(w) ==
  /\ saves[w].pc = "clearing"
  /\ canRun(saves[w].tx)
  /\ cache' = {}
  /\ txs' = [txs EXCEPT ![saves[w].tx].undo = cache]
  /\ saves' = [saves EXCEPT ![w].pc = "putting"]
  /\ UNCHANGED reads
  /\ UNCHANGED offIdb

\* IndexedDB carries out one of the requested puts.
PutDone(w) ==
  /\ saves[w].pc = "putting"
  /\ saves[w].left # {}
  /\ canRun(saves[w].tx)
  /\ LET rec == CHOOSE x \in saves[w].left :
                   \A y \in saves[w].left : x.intentionId <= y.intentionId
     IN /\ cache' = putByKey(cache, rec)
        /\ saves' = [saves EXCEPT ![w].left = @ \ {rec}]
  /\ UNCHANGED <<txs, reads>>
  /\ UNCHANGED offIdb

\* transaction.oncomplete (lines 93-96): the transaction has committed.
TransactionComplete(w) ==
  /\ saves[w].pc = "putting"
  /\ saves[w].left = {}
  /\ canRun(saves[w].tx)
  /\ txs' = [txs EXCEPT ![saves[w].tx].state = "committed"]
  /\ saves' = [saves EXCEPT ![w].pc = "returned", ![w].saved = TRUE]
  /\ UNCHANGED <<cache, reads>>
  /\ UNCHANGED offIdb

\* A request of the transaction fails (clearRequest.onerror, transaction.onerror):
\* IndexedDB aborts the transaction and undoes what it did; the catch warns.
TransactionError(w) ==
  /\ saves[w].pc \in {"clearing", "putting"}
  /\ canRun(saves[w].tx)
  /\ cache' = IF saves[w].pc = "putting" THEN txs[saves[w].tx].undo ELSE cache
  /\ txs' = [txs EXCEPT ![saves[w].tx].state = "aborted"]
  /\ saves' = [saves EXCEPT ![w].pc = "returned"]
  /\ UNCHANGED reads
  /\ UNCHANGED offIdb

\* loadIntentionsFromCache up to its await (lines 52-56): the readonly
\* transaction is created and store.getAll() requested.
loadIntentionsFromCache(d) ==
  /\ reads[d].pc = "idle"
  /\ \A q \in 1..(d - 1) : reads[q].pc # "idle"
  /\ txs' = Append(txs, Transaction("readonly", {}))
  /\ reads' = [reads EXCEPT ![d].pc = "reading", ![d].tx = Len(txs) + 1]
  /\ UNCHANGED <<cache, saves>>
  /\ UNCHANGED offIdb

\* request.onsuccess (lines 58-62): the records of the store, sorted.
GetAllDone(d) ==
  /\ reads[d].pc = "reading"
  /\ canRun(reads[d].tx)
  /\ txs' = [txs EXCEPT ![reads[d].tx].state = "committed"]
  /\ reads' = [reads EXCEPT ![d].pc = "returned",
                            ![d].result = sortByCreatedAtDesc(cache)]
  /\ UNCHANGED <<cache, saves>>
  /\ UNCHANGED offIdb

\* request.onerror (line 63): the catch warns and returns [] (lines 65-68).
GetAllFailed(d) ==
  /\ reads[d].pc = "reading"
  /\ txs' = [txs EXCEPT ![reads[d].tx].state = "aborted"]
  /\ reads' = [reads EXCEPT ![d].pc = "returned", ![d].failed = TRUE]
  /\ UNCHANGED <<cache, saves>>
  /\ UNCHANGED offIdb

\* The cache holds the snapshot an earlier save has committed.
CacheInit ==
  /\ JoinQuiet
  /\ cache \in SUBSET CachedRecords
  /\ txs = <<[Transaction("readwrite", cache) EXCEPT !.state = "committed"]>>
  /\ saves = [w \in Savers |-> IdleSave]
  /\ reads = [d \in Readers |-> IdleRead]
  /\ store = {}
  /\ creates = [c \in Creators |-> IdleCreate]
  /\ loads = [l \in Loaders |-> IdleLoad]
  /\ UpdateIdle
  /\ SearchIdle
  /\ LogIdle
  /\ PairIdle
  /\ ModelIdle

CacheNext ==
  \/ \E w \in Savers, intentions \in SUBSET CachedRecords :
       saveIntentionsToCache(w, intentions)
  \/ \E w \in Savers, intentions \in SUBSET CachedRecords :
       SaveOpenFailed(w, intentions)
  \/ \E w \in Savers : ClearDone(w)
  \/ \E w \in Savers : PutDone(w)
  \/ \E w \in Savers : TransactionComplete(w)
  \/ \E w \in Savers : TransactionError(w)
  \/ \E d \in Readers : loadIntentionsFromCache(d)
  \/ \E d \in Readers : GetAllDone(d)
  \/ \E d \in Readers : GetAllFailed(d)

CacheSpec == CacheInit /\ [][CacheNext]_vars

\* ------------------------------------------------------------------ ModelSpec
\* The functions that reach initializeSearchModel.
EmbedKinds == {"initializeSearchModel", "generateEmbedding"}

\* A call of initializeSearchModel, or of generateEmbedding, up to its first
\* await.  generateEmbedding with a model goes straight to the model (lines
\* 1430-1435); otherwise initializeSearchModel returns the model, or the
\* promise in modelLoading, or starts the import (lines 1386-1391).
initializeSearchModel(k, kind) ==
  /\ embeds[k].pc = "idle"
  /\ \A q \in 1..(k - 1) : embeds[q].pc # "idle"
  /\ embeds' =
       IF embeddingModel # NoModel
         THEN [embeds EXCEPT ![k].pc = "returned", ![k].kind = kind,
                             ![k].model = embeddingModel]
       ELSE IF modelLoading # NoModel
         THEN [embeds EXCEPT ![k].pc = IF pipelines[modelLoading] = "rejected"
                                         THEN "threw" ELSE "sharing",
                             ![k].kind = kind,
                             ![k].awaits = modelLoading]
       ELSE [embeds EXCEPT ![k].pc = "importing", ![k].kind = kind]
  /\ UNCHANGED <<embeddingModel, modelLoading, pipelines>>
  /\ UNCHANGED offModel

\* await import('@xenova/transformers') resolves: configure env, call
\* pipeline(...) and keep its promise in modelLoading (lines 1391-1410).
ImportResolve(k) ==
  /\ embeds[k].pc = "importing"
  /\ pipelines' = Append(pipelines, "pending")
  /\ modelLoading' = Len(pipelines) + 1
  /\ embeds' = [embeds EXCEPT ![k].pc = "loading", ![k].own = TRUE,
                              ![k].awaits = Len(pipelines) + 1]
  /\ UNCHANGED embeddingModel
  /\ UNCHANGED offModel

\* The import rejects: the catch rethrows (lines 1414-1421).
ImportReject(k) ==
  /\ embeds[k].pc = "importing"
  /\ embeds' = [embeds EXCEPT ![k].pc = "threw"]
  /\ UNCHANGED <<embeddingModel, modelLoading, pipelines>>
  /\ UNCHANGED offModel

\* The calls that await pipeline promise p.
awaiting(p) ==
  {k \in Embedders : embeds[k].pc \in {"loading", "sharing"} /\ embeds[k].awaits = p}

\* A pipeline promise resolves: the call that started it sets embeddingModel
\* (line 1410), and every call that awaits it goes on with that model.
PipelineResolve(p) ==
  /\ p \in 1..Len(pipelines)
  /\ pipelines[p] = "pending"
  /\ pipelines' = [pipelines EXCEPT ![p] = "resolved"]
  /\ embeddingModel' = p
  /\ embeds' = [k \in Embedders |->
                  IF k \in awaiting(p)
                    THEN [embeds[k] EXCEPT !.pc = "returned", !.model = p]
                    ELSE embeds[k]]
  /\ UNCHANGED modelLoading
  /\ UNCHANGED offModel

\* A pipeline promise rejects: every call that awaits it throws; modelLoading
\* keeps the rejected promise.
PipelineReject(p) ==
  /\ p \in 1..Len(pipelines)
  /\ pipelines[p] = "pending"
  /\ pipelines' = [pipelines EXCEPT ![p] = "rejected"]
  /\ embeds' = [k \in Embedders |->
                  IF k \in awaiting(p)
                    THEN [embeds[k] EXCEPT !.pc = "threw"]
                    ELSE embeds[k]]
  /\ UNCHANGED <<embeddingModel, modelLoading>>
  /\ UNCHANGED offModel

ModelInit ==
  /\ JoinQuiet
  /\ WriteIdle

ModelNext ==
  \/ \E k \in Embedders, kind \in EmbedKinds : initializeSearchModel(k, kind)
  \/ \E k \in Embedders : ImportResolve(k)
  \/ \E k \in Embedders : ImportReject(k)
  \/ \E p \in 1..MaxEmbeds : PipelineResolve(p)
  \/ \E p \in 1..MaxEmbeds : PipelineReject(p)

ModelSpec == ModelInit /\ [][ModelNext]_vars

Init == JoinInit /\ WriteIdle

Next == JoinNext

Spec == Init /\ [][Next]_vars

\* =================================================================== claims
OpensOf(r) == {i \in 1..Len(opens) : opens[i].run = r}

\* The race on open i was lost: the open rejected, or its deadline fired first.
Failed(i) == opens[i].abandoned \/ opens[i].status = "rejected"

InvitationFailed(r) ==
  \E i \in OpensOf(r) : opens[i].kind = "invitation" /\ Failed(i)

StoredFailed(r) ==
  \E i \in OpensOf(r) : opens[i].kind = "stored" /\ Failed(i)

NewFailed(r) ==
  \E i \in OpensOf(r) : opens[i].kind = "new" /\ Failed(i)

BothPresent(r) ==
  run[r].pc # "idle" /\ run[r].urlAddress # NoAddr /\ run[r].storedAddress # NoAddr

OnlyInvitationOpened(r) ==
  \A i \in OpensOf(r) :
    opens[i].kind = "invitation" /\ opens[i].address = run[r].urlAddress

\* C1: a call that starts with an invitation and a remembered address opens the
\* invitation's address and no other, and at the step where that open succeeds
\* the remembered address becomes the invitation's address.
C1_InvitationFirst ==
  [][\A r \in Runs :
       /\ BothPresent(r)' => OnlyInvitationOpened(r)'
       /\ (BothPresent(r) /\ run[r].pc # "returned" /\ run'[r].pc = "returned")
            => storedAddr' = run[r].urlAddress]_vars

C1_Witness ==
  \E r \in Runs :
    /\ BothPresent(r)
    /\ run[r].storedAddress # run[r].urlAddress
    /\ run[r].pc = "returned"
    /\ storedAddr = run[r].urlAddress

\* C2: once the open of an invitation's store has failed or timed out, the call
\* has thrown, has opened nothing but the invitation's address (no remembered
\* address, no new store) and has returned no database.
C2_InvitationFailureStops ==
  \A r \in Runs :
    InvitationFailed(r) =>
      /\ run[r].pc = "threw"
      /\ run[r].error \in {"peerUnreachable", "discoveryTimeout"}
      /\ OnlyInvitationOpened(r)
      /\ \A i \in OpensOf(r) : ~opens[i].returned

C2_Witness ==
  \E r \in Runs :
    /\ InvitationFailed(r)
    /\ run[r].storedAddress # NoAddr
    /\ \E i \in OpensOf(r) : opens[i].abandoned

\* C3 as stated: with no invitation, a call whose remembered address failed to
\* open never fails.
C3_Original ==
  \A r \in Runs :
    (run[r].urlAddress = NoAddr /\ StoredFailed(r)) => run[r].pc # "threw"

\* C3 amended: at the step where the remembered open fails the remembered
\* address is removed and the creation of a new store is started; the call then
\* either returns the created store flagged as new, or throws because the
\* creation itself failed or timed out.
C3_StoredFailureFallsThrough ==
  [][\A r \in Runs :
       /\ (run[r].pc = "storedOpen" /\ run'[r].pc # "storedOpen"
             /\ run'[r].pc # "returned")
            => /\ storedAddr' = NoAddr
               /\ run'[r].pc = "newOpen"
               /\ Len(opens') = Len(opens) + 1
               /\ opens'[Len(opens')].kind = "new"
               /\ opens'[Len(opens')].run = r
       /\ StoredFailed(r)' =>
            /\ run'[r].pc \in {"newOpen", "returned", "threw"}
            /\ run'[r].pc = "returned" =>
                 /\ opens'[run'[r].op].kind = "new"
                 /\ opens'[run'[r].op].returned
                 /\ opens'[run'[r].op].isNewDatabase
            /\ run'[r].pc = "threw" => NewFailed(r)']_vars

C3_Witness ==
  \E r \in Runs :
    /\ run[r].urlAddress = NoAddr
    /\ \E i \in OpensOf(r) : opens[i].kind = "stored" /\ opens[i].abandoned
    /\ run[r].pc = "returned"
    /\ opens[run[r].op].isNewDatabase
    /\ storedAddr = opens[run[r].op].address

\* C6: at most one call of openIntentionsDatabase is in flight.
C6_AtMostOneActiveRun ==
  Cardinality({r \in Runs : Active(r)}) <= 1

\* The addresses of the databases that orbitdb holds open on behalf of call r:
\* every open of r that resolved, awaited or abandoned (nothing closes them).
LiveStoresOf(r) ==
  {opens[i].address : i \in {j \in OpensOf(r) : opens[j].status = "resolved"}}

\* C7: at most one replicated store is open in the process; stated for what a
\* single call of openIntentionsDatabase leaves open, so that a violation does
\* not rest on two calls running at once.
C7_AtMostOneLiveSession ==
  \A r \in Runs : Cardinality(LiveStoresOf(r)) <= 1

\* C7, the case the claim names: one call alone, whose abandoned open of the
\* remembered address completed after a new store had been created.
C7_AbandonedOpenWitness ==
  /\ run[2].pc = "idle"
  /\ run[1].pc = "returned"
  /\ \E i \in OpensOf(1) :
       /\ opens[i].kind = "stored" /\ opens[i].abandoned
       /\ opens[i].status = "resolved"
       /\ opens[i].address # opens[run[1].op].address

\* C8: a returned database is flagged new iff step 3 opened it, flagged
\* joined-via-invitation iff it is the open of the invitation's address, and
\* never both.
C8_ExactlyOneOrigin ==
  \A i \in 1..Len(opens) :
    opens[i].returned =>
      /\ ~(opens[i].isNewDatabase /\ opens[i].isJoinedViaInvitation)
      /\ opens[i].isNewDatabase <=> opens[i].kind = "new"
      /\ opens[i].isJoinedViaInvitation <=>
           (opens[i].kind = "invitation"
              /\ run[opens[i].run].urlAddress # NoAddr
              /\ opens[i].address = run[opens[i].run].urlAddress)

C8_Witness ==
  /\ \E i \in 1..Len(opens) : opens[i].returned /\ opens[i].kind = "invitation"
  /\ \E i \in 1..Len(opens) : opens[i].returned /\ opens[i].kind = "stored"

\* C9: when the dial phase ends, directPeerConnected is true iff some dial had
\* succeeded by then.
C9_AnySuccessConnects ==
  [][\A r \in Runs :
       (run[r].pc = "dialing" /\ run'[r].pc # "dialing")
         => (run'[r].directPeerConnected <=> \E h \in Hints : dial[r][h] = "ok")]_vars

\* A direct dial was attempted and reported no connection.
DirectDialFailed(r) ==
  /\ run[r].peerMultiaddrs # {} /\ run[r].libp2p
  /\ ~run[r].directPeerConnected

\* C10 as stated: a call throws only when an invitation's direct dial and the
\* open after it both failed.
C10_Original ==
  \A r \in Runs :
    run[r].pc = "threw" =>
      (run[r].urlAddress # NoAddr /\ DirectDialFailed(r) /\ InvitationFailed(r))

\* C10 amended: a call throws exactly when the open of the invitation's store
\* failed or timed out (with or without peer hints, dial connected or not) or
\* the creation of the new store failed or timed out; the failure of a
\* remembered address is never the one that ends the call.
C10_FatalOnlyInvitationOrCreate ==
  \A r \in Runs :
    /\ run[r].pc = "threw" <=> (InvitationFailed(r) \/ NewFailed(r))
    /\ run[r].pc = "threw" =>
         /\ opens[run[r].op].kind \in {"invitation", "new"}
         /\ run[r].error = "newStoreOpen" <=> NewFailed(r)

C10_Witness ==
  /\ \E r \in Runs : run[r].pc = "threw" /\ run[r].error = "discoveryTimeout"
                       /\ run[r].peerMultiaddrs = {}
  /\ \E r \in Runs : run[r].pc = "threw" /\ run[r].error = "newStoreOpen"
                       /\ StoredFailed(r)

\* C4: at the step where createIntention finishes with its store write rejected
\* or timed out, it has returned (not thrown) and its record is in the cache.
C4_CreateSurvivesWriteFailure ==
  [][\A c \in Creators :
       (creates[c].pc = "put" /\ creates'[c].pc # "put"
          /\ creates'[c].put # "resolved")
         => /\ creates'[c].pc = "returned"
            /\ creates[c].intention \in cache']_vars

\* C4, the part that holds: the store write's failure never makes the call throw.
C4_ReturnsWitness ==
  \E c \in Creators :
    /\ creates[c].pc = "returned"
    /\ creates[c].put = "rejected"
    /\ creates[c].intention \in cache
    /\ creates[c].intention \notin store

\* C5: at the step where loadIntentions gives up on a failed or timed-out read
\* of a session that is not new, it returns the cache's snapshot.
C5_ReadFailureReturnsCache ==
  [][\A l \in Loaders :
       (loads[l].pc = "reading" /\ loads'[l].pc = "returned")
         => loads'[l].result = sortByCreatedAtDesc(cache')]_vars

\* C5, the part that holds: the failure is not propagated, the call returns.
C5_NotPropagatedWitness ==
  \E l \in Loaders :
    loads[l].pc = "returned" /\ loads[l].failed /\ ~loads[l].isNewDatabase

\* Call r was made with an invitation in the URL and is over.
FinishedInvitation(r) ==
  run[r].urlAddress # NoAddr /\ run[r].pc \in {"returned", "threw"}

\* C11: once a call of openIntentionsDatabase that found an invitation is over,
\* by return or by throw, the URL holds neither 'db' nor 'peers', and a call
\* made afterwards reads no invitation: it opens the remembered address or
\* creates a store.
C11_InvitationNotReused ==
  [][\A r \in Runs :
       /\ FinishedInvitation(r)' => urlDb' = NoAddr /\ urlPeers' = {}
       /\ \A q \in Runs :
            (FinishedInvitation(r) /\ run[q].pc = "idle" /\ run'[q].pc # "idle")
              => /\ run'[q].urlAddress = NoAddr
                 /\ ~run'[q].isJoinedViaInvitation
                 /\ run'[q].pc \in {"storedOpen", "newOpen"}]_vars

C11_Witness ==
  \E r \in Runs, q \in Runs :
    /\ run[r].urlAddress # NoAddr
    /\ run[r].peerMultiaddrs # {}
    /\ run[r].pc = "threw"
    /\ run[q].pc # "idle"
    /\ run[q].urlAddress = NoAddr

\* Call c of createIntention returned and IndexedDB served both its cache
\* read and its cache write.
CachedAndReturned(c) ==
  creates[c].pc = "returned" /\ creates[c].cacheRead /\ creates[c].cacheWritten

\* C12: when the calls of createIntention are over, no loadIntentions having
\* run, the cache holds the record of every call that returned and whose
\* cache read and cache write IndexedDB served.
C12_NoCreateDropsAnother ==
  ((\A l \in Loaders : loads[l].pc = "idle") /\
   (\A c \in Creators : creates[c].pc \in {"idle", "returned", "threw"}))
    => \A c \in Creators : CachedAndReturned(c) => creates[c].intention \in cache

\* Two calls returned, both served by IndexedDB.
C12_BothReturnedWitness ==
  /\ \A l \in Loaders : loads[l].pc = "idle"
  /\ \A c \in Creators : CachedAndReturned(c)
  /\ \A c \in Creators : creates[c].intention \in cache

\* Call c returned with its record in the cache and its put rejected or
\* timed out, and the record is not in the store.
Unreplicated(c) ==
  /\ creates[c].pc = "returned"
  /\ creates[c].put # "resolved"
  /\ creates[c].intention \in cache
  /\ creates[c].intention \notin store

\* C13: a loadIntentions that returns leaves in the cache every record that
\* createIntention cached and could not replicate.
C13_UnreplicatedStaysCached ==
  [][\A l \in Loaders :
       (loads[l].pc # "returned" /\ loads'[l].pc = "returned")
         => \A c \in Creators :
              Unreplicated(c) => creates[c].intention \in cache']_vars

\* A title with no character other than blanks (the empty title included).
Blank(title) == \A k \in 1..Len(title) : title[k] = " "

\* C14: createIntention called with an empty or all-blank title throws
\* 'Intention title is required' at once: no record is built, nothing is
\* embedded, the cache and the store are as before, and the call does nothing
\* afterwards.
C14_BlankTitleRejectedFirst ==
  [][\A c \in Creators :
       /\ (creates[c].pc = "idle" /\ creates'[c].pc # "idle" /\
           Blank(creates'[c].intentionData.title))
            => /\ creates'[c].pc = "threw"
               /\ creates'[c].error = "titleRequired"
               /\ creates'[c].intention = NoIntention
               /\ creates'[c].put = "none"
               /\ cache' = cache
               /\ store' = store
       /\ (creates[c].pc = "threw" /\ creates[c].error = "titleRequired")
            => creates'[c] = creates[c]]_vars

C14_Witness ==
  \E c \in Creators :
    /\ creates[c].pc = "threw"
    /\ creates[c].error = "titleRequired"
    /\ creates[c].intentionData.title = <<" ">>
    /\ cache # {}
    /\ store # {}

\* C16: loadIntentions called with isNewDatabase returns [] at once: no
\* database.all() is started and the cache is as before; called without it,
\* the call starts database.all() under the 30 s deadline.
C16_NewDatabaseSkipsRead ==
  [][\A l \in Loaders :
       /\ (loads[l].pc = "idle" /\ loads'[l].pc # "idle")
            => IF loads'[l].isNewDatabase
                 THEN /\ loads'[l].pc = "returned"
                      /\ loads'[l].result = <<>>
                      /\ loads'[l].timeout = 0
                      /\ loads'[l].all = "none"
                      /\ cache' = cache
                      /\ store' = store
                 ELSE /\ loads'[l].pc = "reading"
                      /\ loads'[l].timeout = ReadDeadline
                      /\ loads'[l].all = "pending"
       /\ loads[l].pc = "returned"
            => /\ [loads'[l] EXCEPT !.all = "none"] = [loads[l] EXCEPT !.all = "none"]
               /\ loads[l].isNewDatabase => loads'[l].all = "none"]_vars

C16_Witness ==
  \E l \in Loaders :
    /\ loads[l].pc = "returned"
    /\ loads[l].isNewDatabase
    /\ store # {}
    /\ cache # {}

\* intentionData is past a limit of the create form.
TooLong(intentionData) ==
  \/ Len(intentionData.title) > TitleLimit
  \/ Len(intentionData.description) > DescriptionLimit

\* C15: createIntention called with a title over 200 characters or a
\* description over 2000 throws before it builds a record, and no record of
\* the cache or of the store is past those limits.
C15_LimitsEnforced ==
  /\ \A c \in Creators :
       TooLong(creates[c].intentionData)
         => creates[c].pc = "threw" /\ creates[c].intention = NoIntention
  /\ \A x \in cache \cup store :
       Len(x.title) <= TitleLimit /\ Len(x.description) <= DescriptionLimit

\* A record past the limits is in the cache and in the store.
C15_OverLimitStoredWitness ==
  \E x \in cache \cap store :
    Len(x.title) > TitleLimit \/ Len(x.description) > DescriptionLimit

\* The patch names neither title nor description.
NoTextPatch(updates) == "title" \notin updates.has /\ "description" \notin updates.has

\* w is e with the patch's fields set, updatedAt apart.
PatchedOnly(e, updates, w) ==
  \A f \in DOMAIN e \ {"updatedAt"} :
    w[f] = IF f \in updates.has THEN updates[f] ELSE e[f]

\* C17: an update whose patch names neither title nor description starts no
\* embedding; the record it builds, at time now, is the record read with the
\* patch's fields set and updatedAt = now, so embedding and embeddedAt are
\* those read; that record is what its put stores; and the same patch applied
\* to the stored record at any later time changes updatedAt alone.
C17_NoTextPatchKeepsEmbedding ==
  [][\A u \in Updaters :
       LET p == calls[u].updates
           e == calls'[u].existing
           w == calls'[u].updatedIntention
       IN /\ (calls[u].pc = "getting" /\ calls'[u].pc \notin {"getting", "threw"} /\
               NoTextPatch(p))
               => /\ calls'[u].pc = "putting"
                  /\ e \in store /\ e.intentionId = calls[u].intentionId
                  /\ PatchedOnly(e, p, w)
                  /\ w.updatedAt = now
                  /\ (\A f \in {"embedding", "embeddedAt"} : w[f] = e[f])
                  /\ \A t \in now..MaxNow :
                       spread(w, p, t) = [w EXCEPT !.updatedAt = t]
          /\ (calls[u].pc = "putting" /\ calls'[u].pc = "returned" /\ NoTextPatch(p))
               => /\ w = calls[u].updatedIntention
                  /\ w \in store'
                  /\ \A f \in {"embedding", "embeddedAt"} : w[f] = e[f]]_vars

\* The empty patch was applied at a later time than the record was written.
C17_Witness ==
  \E u \in Updaters :
    /\ calls[u].pc = "returned"
    /\ calls[u].updates.has = {}
    /\ calls[u].updatedIntention \in store
    /\ calls[u].updatedIntention.updatedAt > calls[u].existing.updatedAt
    /\ calls[u].updatedIntention.embeddedAt = calls[u].existing.embeddedAt

\* C18: every stored record carries the embedding of its own title and
\* description.
C18_EmbeddingFollowsText ==
  \A d \in store : d.embedding = textToEmbed(d)

\* An update that set a new, non-empty text stored its embedding.
C18_RegeneratedWitness ==
  \E u \in Updaters :
    /\ calls[u].pc = "returned"
    /\ calls[u].updatedIntention \in store
    /\ calls[u].updatedIntention.title # calls[u].existing.title
    /\ calls[u].updatedIntention.embedding # calls[u].existing.embedding
    /\ calls[u].updatedIntention.embedding = textToEmbed(calls[u].updatedIntention)

C20_IdentityKept ==
  [][\A u \in Updaters :
       (calls[u].pc = "putting" /\ calls'[u].pc = "returned")
         => /\ calls[u].updatedIntention.intentionId = calls[u].existing.intentionId
            /\ calls[u].updatedIntention._id = calls[u].existing._id]_vars

\* completeIntention wrote back a record with the identity it read.
C20_CompletedWitness ==
  \E u \in Updaters :
    /\ calls[u].pc = "returned"
    /\ "completedAt" \in calls[u].updates.has
    /\ calls[u].updatedIntention \in store
    /\ calls[u].updatedIntention.status = "completed"
    /\ calls[u].updatedIntention.intentionId = calls[u].existing.intentionId
    /\ calls[u].updatedIntention._id = calls[u].existing._id

\* The intentionIds of a list of results.
resultIds(results) == {results[k].intentionId : k \in 1..Len(results)}

\* C21: the list searchIntentions returns has at most maxResults entries,
\* each the scores of one intention of the input and none twice, each with a
\* combined score of at least minScore, in non-increasing order of combined
\* score; and an intention that passed the filter and is not in the list has
\* no combined score above one that is.
C21_RankedAndBounded ==
  search.pc = "returned" =>
    LET r == search.results
        o == search.options
        in == search.intentions
    IN /\ Len(r) <= o.maxResults
       /\ \A k \in 1..Len(r) :
            /\ r[k].intentionId \in 1..Len(in)
            /\ r[k] = scores(in[r[k].intentionId], o)
            /\ r[k].combined >= o.minScore
            /\ \A j \in 1..Len(r) : r[j].intentionId = r[k].intentionId => j = k
       /\ \A k \in 1..(Len(r) - 1) : r[k].combined >= r[k + 1].combined
       /\ \A i \in 1..Len(in) :
            (in[i].embedding /\ scores(in[i], o).combined >= o.minScore /\
             i \notin resultIds(r))
              => \A k \in 1..Len(r) : scores(in[i], o).combined <= r[k].combined

\* Three intentions pass the filter, two are returned, out of input order.
C21_Witness ==
  /\ search.pc = "returned"
  /\ Len(search.intentions) = 3
  /\ search.options.maxResults = 2
  /\ Len(search.results) = 2
  /\ search.results[1].combined > search.results[2].combined
  /\ search.results[1].intentionId > search.results[2].intentionId
  /\ \A i \in 1..3 : keeps(scoreIntention(search.intentions[i], search.options),
                             search.options)

\* The intentions of a list that have an embedding.
withEmbedding(intentions) ==
  SelectSeq(intentions, LAMBDA intention : intention.embedding)

\* C22: the list searchIntentions returns is the list it returns for the
\* intentions that have an embedding, and holds none that has not; the only
\* way the call fails is the embedding of the query.
C22_NoEmbeddingLeftOut ==
  /\ search.pc = "returned" =>
       /\ search.results =
            searchResults(withEmbedding(search.intentions), search.options)
       /\ \A k \in 1..Len(search.results) :
            search.intentions[search.results[k].intentionId].embedding
  /\ search.pc \in {"idle", "embedding", "returned", "threw"}

\* A search over intentions with and without embedding, whose threshold an
\* intention without embedding would pass if it were scored.
C22_Witness ==
  /\ search.pc = "returned"
  /\ search.options.minScore <= 0
  /\ search.results # <<>>
  /\ \E i \in 1..Len(search.intentions) : ~search.intentions[i].embedding
  /\ Len(search.results) < search.options.maxResults

\* C23: every result has a combined score within [0, 1] (0 to 100 hundredths).
C23_CombinedInUnitRange ==
  search.pc = "returned" =>
    \A k \in 1..Len(search.results) :
      search.results[k].combined >= 0 /\
      search.results[k].combined <= Tenths * Tenths

\* With the default weights and threshold the combined scores are in range.
C23_DefaultsInRangeWitness ==
  /\ search.pc = "returned"
  /\ search.options.weights = <<DefaultSemanticWeight, DefaultGeoWeight>>
  /\ search.options.minScore = DefaultMinScore
  /\ search.options.userLocation
  /\ \E k \in 1..Len(search.results) :
       search.results[k].geo > 0 /\ search.results[k].combined = Tenths * Tenths

\* Both sessions created their store.
BothCreated == \A x \in Sessions : sessions[x].pc = "returned"

C25_LogBoundedMostRecent ==
  [][/\ Len(eventLog') <= LogLimit
     /\ \A j \in 1..Len(eventLog') :
          eventLog'[j] = signed' - Len(eventLog') + j
     /\ eventLog' # eventLog
          => /\ signed' = signed + 1
             /\ IF Len(eventLog) < LogLimit
                  THEN eventLog' = Append(eventLog, signed')
                  ELSE eventLog' = Append(Tail(eventLog), signed')]_vars

\* The log is full and its oldest events have been dropped.
C25_Witness ==
  /\ Len(eventLog) = LogLimit
  /\ signed > LogLimit
  /\ eventLog[1] = signed - LogLimit + 1

\* Some dial of call r is still pending.
DialPending(r) == \E h \in Hints : dial[r][h] = "pending"

\* C26: the dial phase starts the dials of all peer multiaddrs at once, and it
\* ends with every dial settled, or else by the 10 s timer with the result
\* false: while a dial is pending no success of another ends it as connected.
C26_WaitsForAllDials ==
  [][\A r \in Runs :
       /\ (run[r].pc = "idle" /\ run'[r].pc = "dialing")
            => \A h \in Hints :
                 dial'[r][h] = IF h \in run'[r].peerMultiaddrs THEN "pending"
                                                                ELSE "none"
       /\ (run[r].pc = "dialing" /\ run'[r].pc # "dialing")
            => IF DialPending(r)
                 THEN ~run'[r].directPeerConnected
                 ELSE run'[r].directPeerConnected <=> successCount(r) > 0]_vars

\* One dial has succeeded, another is pending, and the call still waits.
C26_Witness ==
  \E r \in Runs :
    /\ run[r].pc = "dialing"
    /\ successCount(r) > 0
    /\ DialPending(r)

\* C27: an invitation's orbitdb.open exists only once the dial phase and the
\* pause of its call are over; after a direct connection it has the 30 s
\* deadline and follows the 1 s pause, otherwise (dials failed or timed out,
\* no multiaddrs, no libp2p) it has the 90 s deadline and no pause.
C27_DeadlineFollowsDial ==
  /\ \A i \in 1..Len(opens) :
       opens[i].kind = "invitation" =>
         LET r == opens[i].run IN
         /\ run[r].pc \notin {"idle", "dialing", "stabilize"}
         /\ IF run[r].directPeerConnected
              THEN /\ opens[i].timeout = ShortOpenDeadline
                   /\ opens[i].pause
                   /\ run[r].peerMultiaddrs # {} /\ run[r].libp2p
              ELSE /\ opens[i].timeout = LongOpenDeadline
                   /\ ~opens[i].pause
  /\ \A r \in Runs :
       run[r].pc \in {"dialing", "stabilize"} => OpensOf(r) = {}

\* Two invitation opens: one after a direct connection, one for a call that
\* was given multiaddrs and no libp2p.
C27_Witness ==
  \E i \in 1..Len(opens), j \in 1..Len(opens) :
    /\ opens[i].kind = "invitation" /\ opens[i].timeout = ShortOpenDeadline
    /\ opens[i].pause
    /\ opens[j].kind = "invitation" /\ opens[j].timeout = LongOpenDeadline
    /\ run[opens[j].run].peerMultiaddrs # {}
    /\ ~run[opens[j].run].libp2p

\* The timers of one call fire and its own continuations run: the 10 s dial
\* timer, the continuation after allSettled, the 1 s pause, the deadline of the
\* open in progress.  Nothing is assumed of the dials and opens themselves.
TimersFire(r) ==
  /\ WF_vars(DialTimeout(r))
  /\ WF_vars(DialAllSettled(r))
  /\ WF_vars(Stabilized(r))
  /\ WF_vars(OpenTimeout(r))

FairSpec == Spec /\ \A r \in Runs : TimersFire(r)

\* C28: when the timers fire, every call of openIntentionsDatabase that has
\* started ends by returning or by throwing, whatever the dials and opens do.
C28_JoinTerminates ==
  \A r \in Runs : Active(r) ~> (run[r].pc \in {"returned", "threw"})

\* A call that was given multiaddrs has ended while none of its dials and none
\* of its opens has completed.
C28_Witness ==
  \E r \in Runs :
    /\ run[r].pc \in {"returned", "threw"}
    /\ run[r].peerMultiaddrs # {} /\ run[r].libp2p
    /\ \A h \in run[r].peerMultiaddrs : dial[r][h] = "pending"
    /\ OpensOf(r) # {}
    /\ \A i \in OpensOf(r) : opens[i].status = "pending"

\* The join of a session, or the write pipeline of an open session: the
\* deadline races of both, in one specification.
RaceInit == Init \/ WriteInit

RaceNext ==
  \/ WriteIdle /\ JoinNext
  \/ JoinQuiet /\ WriteNext

RaceSpec == RaceInit /\ [][RaceNext]_vars

\* An open, or a put, without the two fields that tell how its race was lost.
raceOutcome(op) == [op EXCEPT !.status = "lost", !.abandoned = FALSE]

putOutcome(create) == [create EXCEPT !.put = "lost", !.error = "none"]

\* C29: a step in which an awaited orbitdb.open loses its race, by its deadline
\* or by its own error, is the catch path of that open, and a step in which
\* createIntention leaves its put without a resolved write returns the record:
\* the two causes differ only in how the operation is marked and in the message.
C29_TimeoutLikeError ==
  [][/\ \A r \in Runs :
          (/\ Awaiting(r)
           /\ ~Failed(run[r].op)
           /\ \/ opens'[run[r].op].abandoned
              \/ opens'[run[r].op].status = "rejected")
          => /\ raceOutcome(opens'[run[r].op]) = raceOutcome(opens[run[r].op])
             /\ OnOpenFailed(r, run[r].op,
                             [opens EXCEPT ![run[r].op] = opens'[run[r].op]])
             /\ UNCHANGED <<dial, cache, store, creates, loads>>
     /\ \A c \in Creators :
          (/\ creates[c].pc = "put"
           /\ creates'[c].pc # "put"
           /\ creates'[c].put # "resolved")
          => /\ putOutcome(creates'[c])
                  = putOutcome([creates[c] EXCEPT !.pc = "returned"])
             /\ \A d \in Creators \ {c} : creates'[d] = creates[d]
             /\ UNCHANGED <<cache, store, loads, joinVars>>]_vars

\* Two calls have thrown the same error for the invitation, one after the
\* deadline fired on a pending open and one after the open rejected.
C29_Witness ==
  \E i \in 1..Len(opens), j \in 1..Len(opens) :
    /\ opens[i].kind = "invitation" /\ opens[j].kind = "invitation"
    /\ opens[i].abandoned /\ opens[i].status = "pending"
    /\ ~opens[j].abandoned /\ opens[j].status = "rejected"
    /\ run[opens[i].run].pc = "threw" /\ run[opens[j].run].pc = "threw"
    /\ run[opens[i].run].error = run[opens[j].run].error

\* C30: a dial, an open, a read or a write that completes after its race was
\* decided changes nothing of the calls, the remembered address, the URL, the
\* flags and returned values, or the cache: only its own mark, and for a late
\* put the store.
C30_LateResultDiscarded ==
  [][/\ \A r \in Runs, h \in Hints :
          (run[r].pc # "dialing" /\ dial[r][h] = "pending" /\ dial'[r][h] # "pending")
          => UNCHANGED <<run, opens, storedAddr, urlDb, urlPeers, writeVars>>
     /\ \A i \in 1..Len(opens) :
          (opens[i].abandoned /\ opens'[i].status # opens[i].status)
          => /\ UNCHANGED <<run, dial, storedAddr, urlDb, urlPeers, writeVars>>
             /\ opens' = [opens EXCEPT ![i].status = opens'[i].status,
                                       ![i].address = opens'[i].address]
     /\ \A l \in Loaders :
          (loads[l].pc # "reading" /\ loads[l].all = "pending"
             /\ loads'[l].all # "pending")
          => /\ loads' = [loads EXCEPT ![l].all = loads'[l].all]
             /\ UNCHANGED <<cache, store, creates, joinVars>>
     /\ \A c \in Creators :
          (creates[c].pc # "put" /\ creates[c].put = "pending"
             /\ creates'[c].put # "pending")
          => /\ creates' = [creates EXCEPT ![c].put = creates'[c].put]
             /\ UNCHANGED <<cache, loads, joinVars>>]_vars

\* A call has thrown on its invitation with the 10 s dial timer fired, and
\* since then all its dials have succeeded and its open has resolved.
C30_Witness ==
  \E r \in Runs :
    /\ run[r].pc = "threw"
    /\ run[r].peerMultiaddrs # {} /\ run[r].libp2p
    /\ ~run[r].directPeerConnected
    /\ \A h \in run[r].peerMultiaddrs : dial[r][h] = "ok"
    /\ \E i \in OpensOf(r) : opens[i].abandoned /\ opens[i].status = "resolved"

\* The database call r has returned: the open it awaited last.
returnedDatabase(r) == opens[run[r].op]

\* C31: in the step in which a call returns a database, the remembered address
\* in localStorage is the address of that database.
C31_RememberedIsReturned ==
  [][\A r \in Runs :
       (run[r].pc # "returned" /\ run'[r].pc = "returned")
         => storedAddr' = opens'[run'[r].op].address]_vars

\* A single call, alone, has returned the store it found remembered.
C31_AloneWitness ==
  \E r \in Runs :
    /\ run[r].pc = "returned"
    /\ returnedDatabase(r).kind = "stored"
    /\ storedAddr = returnedDatabase(r).address
    /\ \A q \in Runs \ {r} : run[q].pc = "idle"

\* C32: no step of a call that follows an invitation, other than the one in
\* which it returns the invitation's database, writes the remembered address:
\* when the invitation fails, localStorage holds what it held.
C32_FailedInvitationKeepsRemembered ==
  [][\A r \in Runs :
       (/\ run'[r] # run[r]
        /\ run'[r].urlAddress # NoAddr
        /\ run'[r].pc # "returned")
         => storedAddr' = storedAddr]_vars

\* A call, alone, has thrown on an invitation; the remembered address is the
\* one it found, which was not the invitation's.
C32_Witness ==
  \E r \in Runs :
    /\ run[r].pc = "threw"
    /\ InvitationFailed(r)
    /\ run[r].storedAddress # NoAddr
    /\ run[r].storedAddress # run[r].urlAddress
    /\ storedAddr = run[r].storedAddress
    /\ \A q \in Runs \ {r} : run[q].pc = "idle"

\* The steps of createIntention, in the order of the code.
createOrder == <<"idle", "embedding", "cacheLoad", "cacheSave", "put", "returned">>

\* C33: createIntention goes through validation, embedding, the cache read,
\* the cache write and the put in this order, and in the step that starts
\* database.put the cache holds the new record, embedding included.
C33_CacheBeforePut ==
  [][\A c \in Creators :
       /\ (creates'[c].pc # creates[c].pc /\ creates'[c].pc # "threw")
            => \E k \in 1..(Len(createOrder) - 1) :
                 creates[c].pc = createOrder[k] /\ creates'[c].pc = createOrder[k + 1]
       /\ (creates[c].put = "none" /\ creates'[c].put # "none")
            => /\ creates'[c].intention.embedding # NoEmbedding
               /\ creates'[c].intention \in cache']_vars

\* database.put has been started after a cache write that committed: the
\* cache held the record with its embedding when the put began.
C33_OrderedWitness ==
  \E c \in Creators :
    /\ creates[c].pc = "put"
    /\ creates[c].put = "pending"
    /\ creates[c].cacheWritten
    /\ creates[c].intention.embedding # NoEmbedding
    /\ creates[c].intention \in cache

\* The records a load has read from the store.
recordsRead(l) == {loads[l].result[k] : k \in 1..Len(loads[l].result)}

committedSnapshots ==
  {txs[t].snapshot : t \in {u \in 1..Len(txs) : /\ txs[u].mode = "readwrite"
                                                  /\ txs[u].state = "committed"}}

\* C35: what loadIntentionsFromCache returns from the object store is a whole
\* snapshot that a save has committed, never the store between the clear and
\* the last put of a save in progress.
C35_ReadersSeeWholeSnapshots ==
  \A d \in Readers :
    (reads[d].pc = "returned" /\ ~reads[d].failed)
      => \E snapshot \in committedSnapshots :
           reads[d].result = sortByCreatedAtDesc(snapshot)

\* A read whose transaction was created after that of a save of two records
\* has returned the two records; the save replaced another, non-empty snapshot.
C35_Witness ==
  \E d \in Readers, w \in Savers :
    /\ reads[d].pc = "returned" /\ ~reads[d].failed
    /\ saves[w].saved
    /\ saves[w].tx < reads[d].tx
    /\ Cardinality(saves[w].intentions) = 2
    /\ txs[saves[w].tx].undo # {}
    /\ txs[saves[w].tx].undo # saves[w].intentions
    /\ Len(reads[d].result) = 2

\* C36: in the step in which createIntention returns its record, the record is
\* in the cache or in the store.
C36_ReturnedRecordIsKept ==
  [][\A c \in Creators :
       (creates[c].pc # "returned" /\ creates'[c].pc = "returned")
         => \/ creates'[c].intention \in cache'
            \/ creates'[c].intention \in store']_vars

\* The cache write failed and the put resolved: the returned record is in the
\* store only.
C36_StoredOnlyWitness ==
  \E c \in Creators :
    /\ creates[c].pc = "returned"
    /\ ~creates[c].cacheWritten
    /\ creates[c].put = "resolved"
    /\ creates[c].intention \in store
    /\ creates[c].intention \notin cache

\* Both the caller's location and the intention's geo are present.
hasGeoContext(intention, options) ==
  options.userLocation /\ intention.geo # NoGeo

\* C37: for every result, with both locations present the geo score is the
\* normalised distance and the combined score the weighted sum of the two
\* scores; otherwise the geo score is 0 and the combined score is the semantic
\* score, unweighted (combined scores are in hundredths, the others in tenths).
C37_CombinedScore ==
  search.pc = "returned" =>
    \A k \in 1..Len(search.results) :
      LET r == search.results[k]
          intention == search.intentions[r.intentionId]
          o == search.options
      IN IF hasGeoContext(intention, o)
           THEN /\ r.geo = normalizeGeoScore(intention.geo)
                /\ r.combined = r.semantic * o.weights[1] + r.geo * o.weights[2]
           ELSE /\ r.geo = 0
                /\ r.combined = r.semantic * Tenths

\* A search with a location returned an intention with geo, whose combined
\* score is not its semantic score, and one without, whose combined score is.
C37_Witness ==
  /\ search.pc = "returned"
  /\ search.options.userLocation
  /\ \E j \in 1..Len(search.results), k \in 1..Len(search.results) :
       /\ search.intentions[search.results[j].intentionId].geo # NoGeo
       /\ search.results[j].geo > 0
       /\ search.results[j].combined # search.results[j].semantic * Tenths
       /\ search.intentions[search.results[k].intentionId].geo = NoGeo
       /\ search.results[k].combined = search.results[k].semantic * Tenths
       /\ search.results[k].semantic * search.options.weights[1]
            # search.results[k].combined

\* C38: pipeline(...) is called at most once, and all calls that return end
\* with the model of that one load.
C38_LoadedOnce ==
  /\ Len(pipelines) <= 1
  /\ \A k \in Embedders :
       embeds[k].pc = "returned" => embeds[k].model = 1

\* A call made while the first load was pending has shared it: one load, two
\* calls returned with its model.
C38_SharedWitness ==
  \E k \in Embedders, j \in Embedders :
    /\ embeds[k].pc = "returned" /\ embeds[k].own
    /\ embeds[j].pc = "returned" /\ ~embeds[j].own
    /\ embeds[j].awaits = embeds[k].awaits
    /\ embeds[j].model = embeds[k].model
    /\ Len(pipelines) = 1

====
